---- MODULE Spec2Model ----
(***************************************************************************)
(* Fleet control plane of helexa: the control node ("cortex") registry and *)
(* its per-connection handlers, and the worker ("neuron") control-plane    *)
(* client with its provisioning handlers and process manager.              *)
(*                                                                         *)
(* Time is counted in seconds and advances in steps of the worker's        *)
(* heartbeat interval.                                                     *)
(***************************************************************************)
EXTENDS Integers, Sequences, FiniteSets, TLC

(***************************************************************************)
(* Bounds of the model.                                                    *)
(***************************************************************************)
MaxTime == 120
MaxQueue == 1
BusCapacity == 1
AcceptUntil == 15

(***************************************************************************)
(* Program constants.                                                      *)
(***************************************************************************)
HeartbeatInterval == 15
PruneInterval == 30
PruneTimeout == 90

(***************************************************************************)
(* Value domains.                                                          *)
(***************************************************************************)
NONE == "none"
NodeIds == {"w1", "w2"}
Labels == {"a", "b"}
Models == {"m1", "m2"}
Conns == {1, 2}
AnonymousNeuron == "anonymous-neuron"

\* format!("peer-{}", peer_addr): one distinct address per connection
PeerId(c) == IF c = 1 THEN "peer-1" ELSE IF c = 2 THEN "peer-2" ELSE "peer-3"

\* NeuronDescriptor { node_id: Option<String>, label, metadata }
NeuronDescriptor(nid, label) == [node_id |-> nid, label |-> label]
Descriptors == {NeuronDescriptor(n, l) : n \in NodeIds \cup {NONE}, l \in Labels}

\* ConnectedNeuron { descriptor, last_heartbeat, outbound_tx }; outbound_tx 0 is None,
\* otherwise the connection whose channel the sender feeds
ConnectedNeuron(d, t, tx) == [descriptor |-> d, last_heartbeat |-> t, outbound_tx |-> tx]

VARIABLES
    now,        \* std::time::Instant::now(), in seconds
    neurons,    \* NeuronRegistry.inner: Vec<ConnectedNeuron>
    conn,       \* per connection: handler state and the session's ids
    sockUp,     \* per connection: the websocket transport is usable
    outQ,       \* per connection: items in the unbounded outbound channel
    rxAlive,    \* per connection: out_rx (held by the writer task) exists
    hbNext,     \* per connection: when the worker's next heartbeat is due
    pruneDue,   \* when the prune loop's sleep ends
    bus,        \* events retained by the observe broadcast channel
    lastUpsert, \* per node id: the label of the descriptor last passed to upsert_neuron
    lastOp      \* the call made by the last step, its input and its outcome

cortexVars == <<now, neurons, conn, sockUp, outQ, rxAlive, hbNext, pruneDue, bus, lastUpsert, lastOp>>

VARIABLES
    sup,                \* spawn: where the supervising loop of the worker is
    current,            \* Backoff.current, in seconds
    delay,              \* the delay the loop is sleeping for
    failures,           \* connection attempts that have failed so far
    msgQ,               \* items in the session's outbound channel (msg_tx / msg_rx)
    msgRx,              \* msg_rx, held by the writer task, exists
    wsBroken,           \* writes to the session's websocket fail
    hbTask,             \* the session's heartbeat task is running
    model_configs,      \* ModelConfigState.configs
    workers,            \* ProcessManager.workers: pid -> Child
    by_model,           \* ProcessManager.by_model: model id -> Vec<pid>
    registry,           \* ModelRegistry.entries
    next_backend_port,  \* RuntimeManager.next_backend_port
    lastCmd             \* the provisioning command handled by the last step and its outcome

workerVars == <<sup, current, delay, failures, msgQ, msgRx, wsBroken, hbTask,
                model_configs, workers, by_model, registry, next_backend_port, lastCmd>>

VARIABLES
    obs,          \* per monitoring connection: handler state, receiver position, messages sent
    model_store   \* ModelProvisioningStore: neuron id -> provisioning statuses

observeVars == <<obs, model_store>>

VARIABLES
    inflight      \* per calling thread: the ProcessManager call it is inside of

pmVars == <<inflight>>

VARIABLES
    sigTask       \* the session's shutdown-signal task is waiting for the signal

signalVars == <<sigTask>>

VARIABLES
    model_config_store  \* the worker's JSON cache file "neuron-model-configs"

storeVars == <<model_config_store>>

VARIABLES
    cortex_state_file,  \* the control node's JSON cache file "cortex-state"
    json_file,          \* a JsonStore's file on disk: missing, empty, or its text
    json_saved,         \* the values given to the latest saves since the file was last removed
    json_loaded         \* what load_or_default returned since the file was last touched

cacheVars == <<cortex_state_file, json_file, json_saved, json_loaded>>

VARIABLES
    exited        \* pids of spawned backends that have exited on their own

osVars == <<exited>>

VARIABLES
    registry_lock,  \* the RwLock around the worker's ModelRegistry: read guards out, write guard out
    chat,           \* per request task: the model whose backend call execute_chat is awaiting
    unload,         \* where the receive loop is inside handle_unload_model
    worker_threads  \* worker threads of the tokio runtime the worker's tasks run on

lockVars == <<registry_lock, chat, unload, worker_threads>>

vars == <<cortexVars, workerVars, observeVars, pmVars, signalVars, storeVars, cacheVars, osVars, lockVars>>

(***************************************************************************)
(* Wire frames received by the control node.  kind is the serde tag; the   *)
(* worker's Shutdown tag and every non-JSON frame are outside the control  *)
(* node's NeuronToCortex enum.                                             *)
(***************************************************************************)
Frame(kind, nid, label) == [kind |-> kind, node_id |-> nid, label |-> label]

RegisterFrames == {Frame("register", d.node_id, d.label) : d \in Descriptors}
HeartbeatFrames == {Frame("heartbeat", n, NONE) : n \in NodeIds \cup {AnonymousNeuron}}
ResponseFrames == {Frame("provisioning_response", n, NONE) : n \in NodeIds \cup {AnonymousNeuron}}
BadFrames == {Frame("shutdown", "w1", NONE), Frame("garbage", NONE, NONE)}
AllFrames == RegisterFrames \cup HeartbeatFrames \cup ResponseFrames \cup BadFrames

\* parse_ws_json::<NeuronToCortex>: Ok for the three known tags, Err otherwise
parse_ws_json(frame) ==
    IF frame.kind \in {"register", "heartbeat", "provisioning_response"}
    THEN [ok |-> TRUE, msg |-> frame]
    ELSE [ok |-> FALSE, msg |-> frame]

(***************************************************************************)
(* Observe bus: broadcast channel retaining the last BusCapacity events.   *)
(***************************************************************************)
ObserveEvent(type, nid, label) == [type |-> type, neuron_id |-> nid, label |-> label]

publish(b, e) ==
    LET s == Append(b, e)
    IN IF Len(s) > BusCapacity THEN SubSeq(s, Len(s) - BusCapacity + 1, Len(s)) ELSE s

(***************************************************************************)
(* NeuronRegistry                                                          *)
(***************************************************************************)
\* position of the first record whose descriptor.node_id equals nid (0: none)
FindNode(ns, nid) ==
    IF \E i \in 1..Len(ns) : ns[i].descriptor.node_id = nid
    THEN CHOOSE i \in 1..Len(ns) :
            /\ ns[i].descriptor.node_id = nid
            /\ \A j \in 1..(i - 1) : ns[j].descriptor.node_id # nid
    ELSE 0

\* position of the first record with node_id.as_deref() == Some(id) (0: none)
FindSome(ns, id) == IF id = NONE THEN 0 ELSE FindNode(ns, id)

upsert_neuron_push(ns, d, t) == Append(ns, ConnectedNeuron(d, t, 0))

upsert_neuron_fresh_record(ns, d, t) ==
    LET i == FindNode(ns, d.node_id)
    IN IF i # 0
       THEN [ns EXCEPT ![i] = ConnectedNeuron(d, t, 0)]
       ELSE Append(ns, ConnectedNeuron(d, t, 0))

upsert_neuron(ns, d, t) ==
    LET i == FindNode(ns, d.node_id)
    IN IF i # 0
       THEN [ns EXCEPT ![i].descriptor = d, ![i].last_heartbeat = t]
       ELSE Append(ns, ConnectedNeuron(d, t, 0))

set_sender_if_unset(ns, id, tx) ==
    LET i == FindSome(ns, id)
    IN IF i # 0 /\ ns[i].outbound_tx = 0 THEN [ns EXCEPT ![i].outbound_tx = tx] ELSE ns

set_sender_for_neuron(ns, id, tx) ==
    LET i == FindSome(ns, id)
    IN IF i # 0 THEN [ns EXCEPT ![i].outbound_tx = tx] ELSE ns

update_heartbeat_or_insert(ns, id, t) ==
    LET i == FindSome(ns, id)
    IN IF i # 0 THEN [ns EXCEPT ![i].last_heartbeat = t]
       ELSE Append(ns, ConnectedNeuron(NeuronDescriptor(id, "a"), t, 0))

update_heartbeat(ns, id, t) ==
    LET i == FindSome(ns, id)
    IN IF i # 0 THEN [ns EXCEPT ![i].last_heartbeat = t] ELSE ns

\* now.duration_since(earlier): saturating at zero
duration_since(t, earlier) == IF t >= earlier THEN t - earlier ELSE 0

RECURSIVE retain(_, _, _)
retain(ns, t, timeout) ==
    IF ns = <<>> THEN <<>>
    ELSE LET rest == retain(Tail(ns), t, timeout)
         IN IF duration_since(t, Head(ns).last_heartbeat) <= timeout
            THEN <<Head(ns)>> \o rest
            ELSE rest

RECURSIVE retain_strict(_, _, _)
retain_strict(ns, t, timeout) ==
    IF ns = <<>> THEN <<>>
    ELSE LET rest == retain_strict(Tail(ns), t, timeout)
         IN IF duration_since(t, Head(ns).last_heartbeat) < timeout
            THEN <<Head(ns)>> \o rest
            ELSE rest

prune_stale_strict(ns, t, timeout) == retain_strict(ns, t, timeout)

prune_stale(ns, t, timeout) == retain(ns, t, timeout)

\* outcome of send_to_neuron: "ok", "unknown" (no neuron registered with id),
\* "no_channel" (no outbound sender registered), "closed" (failed to enqueue)
send_result_swapped(ns, id, alive) ==
    LET i == FindSome(ns, id)
    IN IF i = 0 THEN "no_channel"
       ELSE IF ns[i].outbound_tx = 0 THEN "unknown"
       ELSE IF alive[ns[i].outbound_tx] THEN "ok"
       ELSE "closed"

send_result(ns, id, alive) ==
    LET i == FindSome(ns, id)
    IN IF i = 0 THEN "unknown"
       ELSE IF ns[i].outbound_tx = 0 THEN "no_channel"
       ELSE IF alive[ns[i].outbound_tx] THEN "ok"
       ELSE "closed"

send_target(ns, id) ==
    LET i == FindSome(ns, id) IN IF i = 0 THEN 0 ELSE ns[i].outbound_tx

(***************************************************************************)
(* Messages the control node queues for a worker (CortexToNeuron).         *)
(***************************************************************************)
CortexToNeuron(kind, cmd, model) == [kind |-> kind, cmd |-> cmd, model |-> model]

\* demand_state.models: the models of the loaded cortex spec
DemandModels == <<"m1">>

\* bootstrap_upsert_for_neuron: one UpsertModelConfig per demand model
bootstrap_upsert_for_neuron(q) ==
    q \o [i \in 1..Len(DemandModels) |-> CortexToNeuron("provisioning", "upsert", DemandModels[i])]

RequestCapabilities == CortexToNeuron("request_capabilities", NONE, NONE)
LoadModelCmd == CortexToNeuron("provisioning", "load", "m1")
SendIds == {"w1", PeerId(1)}

\* the match on the first message: only the Register arm registers
is_register_or_heartbeat(msg) == msg.kind \in {"register", "heartbeat"}

is_register(msg) == msg.kind = "register"

\* worker ids are interchangeable: the first stable id to register is "w1"
FreshIdsInOrder(nid) == nid = "w2" => lastUpsert["w1"] # NONE

Op(op, id, arg, result) == [op |-> op, id |-> id, arg |-> arg, result |-> result]
Other == Op("other", NONE, NONE, NONE)

\* a connection whose handler has returned or whose reader task has ended
Closed == [st |-> "closed", node_id |-> NONE, id |-> NONE]


(***************************************************************************)
(* Monitoring ("observe") connections.  Each holds its own receiver of the *)
(* broadcast channel, created by resubscribe() when the connection is      *)
(* accepted.  unread counts the events sent on the channel since the       *)
(* receiver's position; the channel still holds the last Len(bus) of them. *)
(* since and early record, for the properties, the events published after  *)
(* the subscription and how many were waiting when the snapshot was sent.  *)
(***************************************************************************)
MaxEvents == 3
Observers == {1}

\* ModelProvisioningStore::list_for_neuron
list_for_neuron(store, id) == IF id \in DOMAIN store THEN store[id] ELSE <<>>

\* ModelProvisioningStatus: the control node's belief about one model on one
\* worker; every ProvisioningResponse frame of the model reports ResponseStatus
ModelProvisioningStatus(model, status) == [model_id |-> model, status |-> status]
ResponseStatus == ModelProvisioningStatus("m1", "ok")

\* ObserveNeuron { descriptor, models, .. } and ObserveMessage
ObserveNeuron(d, models) == [descriptor |-> d, models |-> models]
NoEvent == ObserveEvent(NONE, NONE, NONE)
ObserveMessage(kind, snapshot, event) == [kind |-> kind, snapshot |-> snapshot, event |-> event]

Observer(st, up, unread, snap, got, since, early) ==
    [st |-> st, up |-> up, unread |-> unread, snap |-> snap, got |-> got,
     since |-> since, early |-> early]
NoObserver == Observer("none", FALSE, 0, <<>>, <<>>, <<>>, 0)
\* a monitoring connection whose handler has returned
ObserverClosed == Observer("closed", FALSE, 0, <<>>, <<>>, <<>>, 0)

\* the connection's task owns a receiver from resubscribe() until it returns
holds_receiver_after_snapshot(st) == st = "streaming"
holds_receiver(st) == st \in {"subscribed", "snapshot", "streaming"}

\* broadcast::Sender::send as seen by the receivers: one more unread event
bus_send(ob, e) ==
    [o \in DOMAIN ob |->
        IF ob[o].st \in {"subscribed", "snapshot", "streaming"}
        THEN [ob[o] EXCEPT !.unread = IF holds_receiver(ob[o].st) THEN @ + 1 ELSE @,
                           !.since = Append(@, e)]
        ELSE ob[o]]

\* broadcast::Receiver::recv: Lagged when the oldest unread event has been
\* overwritten, otherwise the oldest unread event
recv_lagged(b, unread) == unread > Len(b)
recv_event(b, unread) == b[Len(b) - unread + 1]

\* the receiver's position after a successful recv
advance_stuck(unread) == unread
advance(unread) == unread - 1

(***************************************************************************)
(* Initial state of the control node: empty registry, no connection.       *)
(***************************************************************************)
CortexInit ==
    /\ now = 0
    /\ neurons = <<>>
    /\ conn = [c \in Conns |-> [st |-> "none", node_id |-> NONE, id |-> NONE]]
    /\ sockUp = [c \in Conns |-> FALSE]
    /\ outQ = [c \in Conns |-> <<>>]
    /\ rxAlive = [c \in Conns |-> FALSE]
    /\ hbNext = [c \in Conns |-> 0]
    /\ pruneDue = PruneInterval
    /\ bus = <<>>
    /\ lastUpsert = [n \in NodeIds \cup {NONE} |-> NONE]
    /\ lastOp = Other
    /\ obs = [o \in Observers |-> NoObserver]
    /\ model_store = [n \in {} |-> <<>>]

\* events are published while every subscriber's record of them has room
CanPublish == \A o \in Observers : Len(obs[o].since) < MaxEvents

(***************************************************************************)
(* start_control_plane_server: accept loop and prune loop                  *)
(***************************************************************************)
\* listener.accept() and the websocket upgrade of handle_neuron_connection
Accept(c) ==
    /\ conn[c].st = "none"
    /\ \A b \in Conns : b < c => conn[b].st # "none"
    /\ now <= AcceptUntil
    /\ conn' = [conn EXCEPT ![c].st = "awaiting"]
    /\ sockUp' = [sockUp EXCEPT ![c] = TRUE]
    /\ lastOp' = Other
    /\ UNCHANGED <<now, neurons, outQ, rxAlive, hbNext, pruneDue, bus, lastUpsert, workerVars, observeVars, pmVars, signalVars, storeVars, cacheVars, osVars, lockVars>>

\* the prune task: sleep(interval) then prune_stale(timeout)
Prune ==
    /\ now >= pruneDue
    /\ neurons' = prune_stale(neurons, now, PruneTimeout)
    /\ pruneDue' = now + PruneInterval
    /\ lastOp' = Op("prune", NONE, NONE, NONE)
    /\ UNCHANGED <<now, conn, sockUp, outQ, rxAlive, hbNext, bus, lastUpsert, workerVars, observeVars, pmVars, signalVars, storeVars, cacheVars, osVars, lockVars>>

(***************************************************************************)
(* handle_neuron_connection                                                *)
(***************************************************************************)
\* first frame is a Register: upsert_neuron and the NeuronRegistered event
FirstFrameRegister(c, f) ==
    /\ conn[c].st = "awaiting" /\ sockUp[c]
    /\ FreshIdsInOrder(f.node_id)
    /\ parse_ws_json(f).ok /\ is_register(parse_ws_json(f).msg)
    /\ neurons' = upsert_neuron(neurons, NeuronDescriptor(f.node_id, f.label), now)
    /\ CanPublish
    /\ bus' = publish(bus, ObserveEvent("neuron_registered", f.node_id, f.label))
    /\ obs' = bus_send(obs, ObserveEvent("neuron_registered", f.node_id, f.label))
    /\ conn' = [conn EXCEPT ![c] = [st |-> "registering", node_id |-> f.node_id,
                                    id |-> IF f.node_id = NONE THEN PeerId(c) ELSE f.node_id]]
    /\ hbNext' = [hbNext EXCEPT ![c] = now + HeartbeatInterval]
    /\ lastUpsert' = [lastUpsert EXCEPT ![f.node_id] = f.label]
    /\ lastOp' = Op("upsert", f.node_id, f.kind, "registered")
    /\ UNCHANGED <<now, sockUp, outQ, rxAlive, pruneDue, workerVars, model_store, pmVars, signalVars, storeVars, cacheVars, osVars, lockVars>>

\* first frame is anything else: the handler returns Err and the connection
\* is dropped
FirstFrameReject(c, f) ==
    /\ conn[c].st = "awaiting" /\ sockUp[c]
    /\ ~(parse_ws_json(f).ok /\ is_register(parse_ws_json(f).msg))
    /\ conn' = [conn EXCEPT ![c] = Closed]
    /\ sockUp' = [sockUp EXCEPT ![c] = FALSE]
    /\ lastOp' = Op("first_frame", NONE, f.kind, "rejected")
    /\ UNCHANGED <<now, neurons, outQ, rxAlive, hbNext, pruneDue, bus, lastUpsert, workerVars, observeVars, pmVars, signalVars, storeVars, cacheVars, osVars, lockVars>>

\* the stream ends before any frame: the handler returns Err
FirstFrameEof(c) ==
    /\ conn[c].st = "awaiting" /\ ~sockUp[c]
    /\ conn' = [conn EXCEPT ![c] = Closed]
    /\ lastOp' = Other
    /\ UNCHANGED <<now, neurons, sockUp, outQ, rxAlive, hbNext, pruneDue, bus, lastUpsert, workerVars, observeVars, pmVars, signalVars, storeVars, cacheVars, osVars, lockVars>>

\* rest of the Register arm: the outbound channel, set_sender_for_neuron, the
\* writer task, bootstrap_upsert_for_neuron, then the reader task
AttachSender(c) ==
    /\ conn[c].st = "registering"
    /\ neurons' = set_sender_for_neuron(neurons, conn[c].id, c)
    /\ rxAlive' = [rxAlive EXCEPT ![c] = TRUE]
    /\ outQ' = [outQ EXCEPT ![c] = bootstrap_upsert_for_neuron(<<>>)]
    /\ conn' = [conn EXCEPT ![c].st = "active"]
    /\ lastOp' = Other
    /\ UNCHANGED <<now, sockUp, hbNext, pruneDue, bus, lastUpsert, workerVars, observeVars, pmVars, signalVars, storeVars, cacheVars, osVars, lockVars>>

\* writer task: out_rx.recv() then sink.send(); a send error ends the task and
\* drops out_rx with whatever is still queued
WriterStep(c) ==
    /\ rxAlive[c] /\ outQ[c] # <<>>
    /\ IF sockUp[c]
       THEN /\ outQ' = [outQ EXCEPT ![c] = Tail(outQ[c])]
            /\ UNCHANGED rxAlive
       ELSE /\ outQ' = [outQ EXCEPT ![c] = <<>>]
            /\ rxAlive' = [rxAlive EXCEPT ![c] = FALSE]
    /\ lastOp' = Other
    /\ UNCHANGED <<now, neurons, conn, sockUp, hbNext, pruneDue, bus, lastUpsert, workerVars, observeVars, pmVars, signalVars, storeVars, cacheVars, osVars, lockVars>>

(***************************************************************************)
(* handle_neuron_message, called by the reader task for every frame        *)
(***************************************************************************)
\* the id the session's worker puts in its Heartbeat and ProvisioningResponse
OwnNeuronId(c) == IF conn[c].node_id = NONE THEN AnonymousNeuron ELSE conn[c].node_id

HandleRegister(c, f) ==
    /\ conn[c].st = "active" /\ sockUp[c]
    /\ parse_ws_json(f).ok /\ f.kind = "register" /\ f.node_id = conn[c].node_id
    /\ neurons' = upsert_neuron(neurons, NeuronDescriptor(f.node_id, f.label), now)
    /\ lastUpsert' = [lastUpsert EXCEPT ![f.node_id] = f.label]
    /\ lastOp' = Op("upsert", f.node_id, f.kind, "refreshed")
    /\ UNCHANGED <<now, conn, sockUp, outQ, rxAlive, hbNext, pruneDue, bus, workerVars, observeVars, pmVars, signalVars, storeVars, cacheVars, osVars, lockVars>>

HandleHeartbeat(c, f) ==
    /\ conn[c].st = "active" /\ sockUp[c]
    /\ parse_ws_json(f).ok /\ f.kind = "heartbeat" /\ f.node_id = OwnNeuronId(c)
    /\ now >= hbNext[c]
    /\ neurons' = update_heartbeat(neurons, f.node_id, now)
    /\ CanPublish
    /\ bus' = publish(bus, ObserveEvent("neuron_heartbeat", f.node_id, NONE))
    /\ obs' = bus_send(obs, ObserveEvent("neuron_heartbeat", f.node_id, NONE))
    /\ hbNext' = [hbNext EXCEPT ![c] = now + HeartbeatInterval]
    /\ lastOp' = Other
    /\ UNCHANGED <<now, conn, sockUp, outQ, rxAlive, pruneDue, lastUpsert, workerVars, model_store, pmVars, signalVars, storeVars, cacheVars, osVars, lockVars>>

HandleProvisioningResponse(c, f) ==
    /\ conn[c].st = "active" /\ sockUp[c]
    /\ parse_ws_json(f).ok /\ f.kind = "provisioning_response" /\ f.node_id = OwnNeuronId(c)
    /\ CanPublish
    /\ bus' = publish(bus, ObserveEvent("provisioning_response", f.node_id, NONE))
    /\ obs' = bus_send(obs, ObserveEvent("provisioning_response", f.node_id, NONE))
    /\ lastOp' = Other
    /\ UNCHANGED <<now, neurons, conn, sockUp, outQ, rxAlive, hbNext, pruneDue, lastUpsert, workerVars, model_store, pmVars, signalVars, storeVars, cacheVars, osVars, lockVars>>

\* parse_ws_json fails: handle_neuron_message returns Err, the reader task
\* logs it and goes on to the next frame
HandleUnparseable(c, f) ==
    /\ conn[c].st = "active" /\ sockUp[c]
    /\ ~parse_ws_json(f).ok
    /\ lastOp' = Op("message", conn[c].id, f.kind, "parse_error")
    /\ UNCHANGED <<now, neurons, conn, sockUp, outQ, rxAlive, hbNext, pruneDue, bus, lastUpsert, workerVars, observeVars, pmVars, signalVars, storeVars, cacheVars, osVars, lockVars>>

\* rx.next() yields an error or None: the reader task ends
ReaderExit(c) ==
    /\ conn[c].st = "active" /\ ~sockUp[c]
    /\ conn' = [conn EXCEPT ![c] = Closed]
    /\ lastOp' = Other
    /\ UNCHANGED <<now, neurons, sockUp, outQ, rxAlive, hbNext, pruneDue, bus, lastUpsert, workerVars, observeVars, pmVars, signalVars, storeVars, cacheVars, osVars, lockVars>>

\* the peer closes the websocket or the transport fails
SockDown(c) ==
    /\ conn[c].st \in {"awaiting", "active"} /\ sockUp[c]
    /\ sockUp' = [sockUp EXCEPT ![c] = FALSE]
    /\ hbNext' = [hbNext EXCEPT ![c] = 0]
    /\ lastOp' = Other
    /\ UNCHANGED <<now, neurons, conn, outQ, rxAlive, pruneDue, bus, lastUpsert, workerVars, observeVars, pmVars, signalVars, storeVars, cacheVars, osVars, lockVars>>

(***************************************************************************)
(* send_to_neuron and send_provisioning_to_neuron                          *)
(***************************************************************************)
\* send_to_neuron takes the registry's read lock only: whatever the outcome,
\* the records are as before
registry_after_send_evicting(ns, id, alive) ==
    IF send_result(ns, id, alive) = "closed"
    THEN SelectSeq(ns, LAMBDA r : r.descriptor.node_id # id)
    ELSE ns
registry_after_send(ns, id, alive) == ns

\* tx.send(msg) on the record's sender when send_to_neuron finds one
Enqueue(q, id, msg) ==
    IF send_target(neurons, id) # 0 /\ rxAlive[send_target(neurons, id)]
    THEN [q EXCEPT ![send_target(neurons, id)] = Append(@, msg)]
    ELSE q

SendToNeuron(id, msg) ==
    /\ send_target(neurons, id) # 0 => Len(outQ[send_target(neurons, id)]) < MaxQueue
    /\ outQ' = Enqueue(outQ, id, msg)
    /\ neurons' = registry_after_send(neurons, id, rxAlive)
    /\ lastOp' = Op("send", id, NONE, send_result(neurons, id, rxAlive))
    /\ UNCHANGED <<now, conn, sockUp, rxAlive, hbNext, pruneDue, bus, lastUpsert, workerVars, observeVars, pmVars, signalVars, storeVars, cacheVars, osVars, lockVars>>

SendProvisioning(id, msg) ==
    /\ send_target(neurons, id) # 0 => Len(outQ[send_target(neurons, id)]) < MaxQueue
    /\ CanPublish
    /\ bus' = publish(bus, ObserveEvent("provisioning_sent", id, NONE))
    /\ obs' = bus_send(obs, ObserveEvent("provisioning_sent", id, NONE))
    /\ outQ' = Enqueue(outQ, id, msg)
    /\ neurons' = registry_after_send(neurons, id, rxAlive)
    /\ lastOp' = Op("send_provisioning", id, NONE, send_result(neurons, id, rxAlive))
    /\ UNCHANGED <<now, conn, sockUp, rxAlive, hbNext, pruneDue, lastUpsert, workerVars, model_store, pmVars, signalVars, storeVars, cacheVars, osVars, lockVars>>

(***************************************************************************)
(* Passage of time: a heartbeat interval elapses.  A connected worker      *)
(* sends its heartbeat when it is due, the prune loop wakes when its sleep *)
(* ends, and a connecting worker registers at once.                        *)
(***************************************************************************)
Tick ==
    /\ now + HeartbeatInterval <= MaxTime
    /\ now < pruneDue
    /\ \A c \in Conns :
        /\ conn[c].st \notin {"awaiting", "registering"}
        /\ (conn[c].st = "active" /\ sockUp[c]) => now < hbNext[c]
    /\ now' = now + HeartbeatInterval
    /\ lastOp' = Other
    /\ UNCHANGED <<neurons, conn, sockUp, outQ, rxAlive, hbNext, pruneDue, bus, lastUpsert, workerVars, observeVars, pmVars, signalVars, storeVars, cacheVars, osVars, lockVars>>

(***************************************************************************)
(* start_observe_server and handle_observer_connection                     *)
(***************************************************************************)
\* listener.accept(), events_rx.resubscribe() and the spawn of the
\* connection's task
ObserveAccept(o) ==
    /\ obs[o].st = "none"
    /\ obs' = [obs EXCEPT ![o] = Observer("subscribed", TRUE, 0, <<>>, <<>>, <<>>, 0)]
    /\ lastOp' = Other
    /\ UNCHANGED <<now, neurons, conn, sockUp, outQ, rxAlive, hbNext, pruneDue, bus, lastUpsert,
                   model_store, workerVars, pmVars, signalVars, storeVars, cacheVars, osVars, lockVars>>

\* the task reads the registry and the provisioning store into the list of
\* ObserveNeuron for the snapshot
BuildSnapshot(o) ==
    /\ obs[o].st = "subscribed"
    /\ obs' = [obs EXCEPT ![o].st = "snapshot",
                          ![o].snap = [i \in 1..Len(neurons) |->
                              ObserveNeuron(neurons[i].descriptor,
                                  list_for_neuron(model_store,
                                      IF neurons[i].descriptor.node_id = NONE THEN "unknown"
                                      ELSE neurons[i].descriptor.node_id))]]
    /\ lastOp' = Other
    /\ UNCHANGED <<now, neurons, conn, sockUp, outQ, rxAlive, hbNext, pruneDue, bus, lastUpsert,
                   model_store, workerVars, pmVars, signalVars, storeVars, cacheVars, osVars, lockVars>>

\* handle_observer_connection up to its loop: the websocket upgrade and the
\* Snapshot message; either can fail, and then the handler returns Err
SendSnapshot(o) ==
    /\ obs[o].st = "snapshot"
    /\ obs' = [obs EXCEPT ![o] =
                 IF obs[o].up
                 THEN [obs[o] EXCEPT !.st = "streaming",
                                     !.got = <<ObserveMessage("snapshot", obs[o].snap, NoEvent)>>,
                                     !.early = obs[o].unread]
                 ELSE ObserverClosed]
    /\ lastOp' = Other
    /\ UNCHANGED <<now, neurons, conn, sockUp, outQ, rxAlive, hbNext, pruneDue, bus, lastUpsert,
                   model_store, workerVars, pmVars, signalVars, storeVars, cacheVars, osVars, lockVars>>

\* events_rx.recv() is ready: an event is forwarded as an Event message; a
\* failed write, or Err(Lagged) from the receiver, ends the loop
ObserveRecv(o) ==
    /\ obs[o].st = "streaming" /\ obs[o].unread > 0
    /\ obs' = [obs EXCEPT ![o] =
                 IF recv_lagged(bus, obs[o].unread) \/ ~obs[o].up
                 THEN ObserverClosed
                 ELSE [obs[o] EXCEPT
                         !.got = Append(@, ObserveMessage("event", <<>>,
                                                          recv_event(bus, obs[o].unread))),
                         !.unread = advance(@)]]
    /\ lastOp' = Other
    /\ UNCHANGED <<now, neurons, conn, sockUp, outQ, rxAlive, hbNext, pruneDue, bus, lastUpsert,
                   model_store, workerVars, pmVars, signalVars, storeVars, cacheVars, osVars, lockVars>>

\* no event is ready and rx.next() yields Close, an error or the end of the
\* stream: the loop ends
ObserveClientGone(o) ==
    /\ obs[o].st = "streaming" /\ obs[o].unread = 0 /\ ~obs[o].up
    /\ obs' = [obs EXCEPT ![o] = ObserverClosed]
    /\ lastOp' = Other
    /\ UNCHANGED <<now, neurons, conn, sockUp, outQ, rxAlive, hbNext, pruneDue, bus, lastUpsert,
                   model_store, workerVars, pmVars, signalVars, storeVars, cacheVars, osVars, lockVars>>

\* the monitoring client closes the websocket or the transport fails
ObserveSockDown(o) ==
    /\ obs[o].st \in {"subscribed", "snapshot", "streaming"} /\ obs[o].up
    /\ obs' = [obs EXCEPT ![o].up = FALSE]
    /\ lastOp' = Other
    /\ UNCHANGED <<now, neurons, conn, sockUp, outQ, rxAlive, hbNext, pruneDue, bus, lastUpsert,
                   model_store, workerVars, pmVars, signalVars, storeVars, cacheVars, osVars, lockVars>>

(***************************************************************************)
(* The worker ("neuron").                                                  *)
(***************************************************************************)
MaxPid == 2
MaxOutbound == 2
MaxFailures == 9
MaxPorts == 2

StartingPort == 9100
MinPort == 1024
U16Max == 65535
BackoffInitial == 30
BackoffMax == 3600

Pids == 1..MaxPid

\* HashMap: a function whose domain is the set of keys present
EmptyMap == [k \in {} |-> NONE]
Put(m, k, v) == [x \in DOMAIN m \cup {k} |-> IF x = k THEN v ELSE m[x]]
Del(m, k) == [x \in DOMAIN m \ {k} |-> m[x]]

\* a base URL "http://<host>:<port>"; NoUrl is Option::None
Url(host, port) == [host |-> host, port |-> port]
NoUrl == Url(NONE, 0)
ExplicitEndpoint == Url("10.0.0.5", 8000)

\* protocol::ModelConfig
ModelConfig(id, kind, command, listen) ==
    [id |-> id, backend_kind |-> kind, command |-> command, listen_endpoint |-> listen]
ModelConfigs ==
    {ModelConfig("m1", "llama_cpp", "llama-server", NoUrl),
     ModelConfig("m1", "openai_proxy", NONE, ExplicitEndpoint),
     ModelConfig("m2", "vllm", "vllm", ExplicitEndpoint),
     ModelConfig("m2", "openai_proxy", "proxy", NoUrl)}
NoConfig == ModelConfig(NONE, NONE, NONE, NoUrl)

\* protocol::ProvisioningCommand
ProvisioningCommand(kind, model, cfg) == [kind |-> kind, model_id |-> model, cfg |-> cfg]
ProvisioningCommands ==
    {ProvisioningCommand("upsert", cfg.id, cfg) : cfg \in ModelConfigs}
        \cup {ProvisioningCommand(k, m, NoConfig) : k \in {"load", "unload"}, m \in Models}

\* protocol::ProvisioningResponse: Ok { model_id, message } or Error { model_id, error };
\* endpoint is the URL quoted in the message of a successful load
ProvisioningResponse(status, model, error, endpoint) ==
    [status |-> status, model_id |-> model, error |-> error, endpoint |-> endpoint]
NoResponse == ProvisioningResponse(NONE, NONE, NONE, NoUrl)

\* frames the worker queues for the control node (NeuronToCortex)
NeuronToCortex(kind, resp) == [kind |-> kind, response |-> resp]

\* UnboundedSender::send on the outbound queue: fails once the writer task
\* has dropped the receiving half
msg_tx_send_lossy(q, open, m) == [ok |-> TRUE, q |-> q]
msg_tx_send(q, open, m) ==
    IF open THEN [ok |-> TRUE, q |-> Append(q, m)] ELSE [ok |-> FALSE, q |-> q]

\* Backoff::next_delay
\* msg_rx.recv() in the writer task: the oldest queued frame leaves the queue
msg_rx_recv_newest(q) == SubSeq(q, 1, Len(q) - 1)
msg_rx_recv(q) == Tail(q)

next_delay_uncapped(cur) == [delay |-> cur, current |-> cur * 2]
next_delay(cur) ==
    [delay |-> cur, current |-> IF cur * 2 > BackoffMax THEN BackoffMax ELSE cur * 2]

\* JsonStore::load_or_default: the file's content, or the default when there
\* is no file
NoFile == "no_file"
load_or_default(file) == IF file = NoFile THEN EmptyMap ELSE file

\* ModelConfigState::upsert and ::get
upsert(configs, cfg) == Put(configs, cfg.id, cfg)

\* the counter is followed for MaxPorts allocations from its start, and for
\* every allocation from MaxPorts below the largest u16 on
PortRoom(port) == port < StartingPort + MaxPorts \/ port >= U16Max - MaxPorts

\* RuntimeManager::allocate_backend_port: saturating_add(1).max(1024) on a u16
allocate_backend_port(port) ==
    LET inc == IF port + 1 > U16Max THEN U16Max ELSE port + 1
    IN [port |-> port, next |-> IF inc < MinPort THEN MinPort ELSE inc]

derive_listen_endpoint_allocating(cfg, port) ==
    IF cfg.command = NONE \/ cfg.backend_kind \notin {"vllm", "llama_cpp"}
    THEN [ok |-> FALSE, url |-> NoUrl, next |-> port]
    ELSE [ok |-> TRUE,
          url |-> IF cfg.listen_endpoint # NoUrl THEN cfg.listen_endpoint
                  ELSE Url("127.0.0.1", allocate_backend_port(port).port),
          next |-> allocate_backend_port(port).next]

\* RuntimeManager::derive_listen_endpoint
derive_listen_endpoint(cfg, port) ==
    IF cfg.listen_endpoint # NoUrl
    THEN [ok |-> TRUE, url |-> cfg.listen_endpoint, next |-> port]
    ELSE IF cfg.command = NONE
    THEN [ok |-> FALSE, url |-> NoUrl, next |-> port]
    ELSE IF cfg.backend_kind \in {"vllm", "llama_cpp"}
    THEN [ok |-> TRUE, url |-> Url("127.0.0.1", allocate_backend_port(port).port),
          next |-> allocate_backend_port(port).next]
    ELSE [ok |-> FALSE, url |-> NoUrl, next |-> port]

(***************************************************************************)
(* ProcessManager.  A Child is tagged with the model it was spawned for.   *)
(* The OS gives a new child a process id that no Child held by the manager *)
(* has.                                                                    *)
(***************************************************************************)
Child(model) == [model |-> model]
ProcessManager(w, b) == [workers |-> w, by_model |-> b]

\* spawn_worker_with_env takes the workers lock, inserts and releases it,
\* then takes the by_model lock and pushes the pid
track_by_pid(pm, model, pid) ==
    ProcessManager(Put(pm.workers, pid, Child(model)), pm.by_model)

track_by_model(pm, model, pid) ==
    ProcessManager(
        pm.workers,
        IF model \in DOMAIN pm.by_model
        THEN [pm.by_model EXCEPT ![model] = Append(@, pid)]
        ELSE Put(pm.by_model, model, <<pid>>))

spawn_worker_with_env(pm, model, pid) ==
    track_by_model(track_by_pid(pm, model, pid), model, pid)

\* by_model.retain(|_, pids| { pids.retain(|p| *p != pid); !pids.is_empty() })
without_pid(pids, pid) == SelectSeq(pids, LAMBDA p : p # pid)

terminate_worker_by_pid_keep_index(pm, pid) ==
    ProcessManager(Del(pm.workers, pid), pm.by_model)
\* terminate_worker_by_pid takes the workers lock, removes and kills and
\* releases it, then takes the by_model lock and cleans the index
remove_by_pid(pm, pid) == ProcessManager(Del(pm.workers, pid), pm.by_model)

clean_by_model_keep_empty(pm, pid) ==
    ProcessManager(pm.workers, [m \in DOMAIN pm.by_model |-> without_pid(pm.by_model[m], pid)])

clean_by_model(pm, pid) ==
    ProcessManager(
        pm.workers,
        [m \in {x \in DOMAIN pm.by_model : without_pid(pm.by_model[x], pid) # <<>>}
            |-> without_pid(pm.by_model[m], pid)])

terminate_worker_by_pid(pm, pid) == clean_by_model(remove_by_pid(pm, pid), pid)

RECURSIVE terminate_each(_, _)
terminate_each(pm, pids) ==
    IF pids = <<>> THEN pm
    ELSE terminate_each(terminate_worker_by_pid(pm, Head(pids)), Tail(pids))

terminate_workers_for_model(pm, model) ==
    terminate_each(pm, IF model \in DOMAIN pm.by_model THEN pm.by_model[model] ELSE <<>>)

(***************************************************************************)
(* ModelRegistry                                                           *)
(***************************************************************************)
ModelEntry(url, pid) == [runtime |-> url, worker_id |-> pid]
register_chat_model(entries, model, url, pid) == Put(entries, model, ModelEntry(url, pid))
unregister_chat_model(entries, model) == Del(entries, model)

(***************************************************************************)
(* NeuronControlImpl: the provisioning handlers.  rt is the RuntimeManager *)
(* state; each handler yields the new state and the response.              *)
(***************************************************************************)
Runtime(configs, pm, entries, port) ==
    [configs |-> configs, pm |-> pm, entries |-> entries, port |-> port]
Outcome(rt, resp) == [rt |-> rt, resp |-> resp]

handle_upsert_model_config(rt, cfg) ==
    Outcome([rt EXCEPT !.configs = upsert(rt.configs, cfg)],
            ProvisioningResponse("ok", cfg.id, NONE, NoUrl))

\* the Err arm of spawn_worker_with_env in handle_load_model: the response,
\* with the runtime as it is after the endpoint was derived
on_spawn_error_registering(rt, cfg) ==
    Outcome([rt EXCEPT !.entries = register_chat_model(rt.entries, cfg.id, NoUrl, 0)],
            ProvisioningResponse("error", cfg.id, "failed to spawn backend process", NoUrl))
on_spawn_error(rt, cfg) ==
    Outcome(rt, ProvisioningResponse("error", cfg.id, "failed to spawn backend process", NoUrl))

\* spawn is the process id the OS gives the child, 0 when Command::spawn fails
handle_load_model_port_first(rt, model, spawn) ==
    Outcome([rt EXCEPT !.port = allocate_backend_port(rt.port).next],
            ProvisioningResponse("error", model, "no configuration found", NoUrl))
handle_load_model(rt, model, spawn) ==
    IF model \notin DOMAIN rt.configs
    THEN Outcome(rt, ProvisioningResponse("error", model, "no configuration found", NoUrl))
    ELSE LET cfg == rt.configs[model]
             listen == derive_listen_endpoint(cfg, rt.port)
             derived == [rt EXCEPT !.port = listen.next]
         IN IF ~listen.ok
            THEN Outcome(rt, ProvisioningResponse("error", cfg.id, "failed to derive listen endpoint", NoUrl))
            ELSE IF cfg.command = NONE
            THEN Outcome(derived, ProvisioningResponse("error", cfg.id, "missing command", NoUrl))
            ELSE IF spawn = 0
            THEN on_spawn_error(derived, cfg)
            ELSE Outcome([derived EXCEPT
                            !.pm = spawn_worker_with_env(rt.pm, cfg.id, spawn),
                            !.entries = register_chat_model(rt.entries, cfg.id, listen.url, spawn)],
                         ProvisioningResponse("ok", cfg.id, NONE, listen.url))

handle_unload_model_forgetting(rt, model) ==
    Outcome([rt EXCEPT !.configs = Del(rt.configs, model),
                       !.pm = terminate_workers_for_model(rt.pm, model),
                       !.entries = unregister_chat_model(rt.entries, model)],
            ProvisioningResponse("ok", model, NONE, NoUrl))
handle_unload_model(rt, model) ==
    Outcome([rt EXCEPT !.pm = terminate_workers_for_model(rt.pm, model),
                       !.entries = unregister_chat_model(rt.entries, model)],
            ProvisioningResponse("ok", model, NONE, NoUrl))

apply_provisioning(rt, cmd, spawn) ==
    IF cmd.kind = "upsert" THEN handle_upsert_model_config(rt, cmd.cfg)
    ELSE IF cmd.kind = "load" THEN handle_load_model(rt, cmd.model_id, spawn)
    ELSE handle_unload_model(rt, cmd.model_id)

(***************************************************************************)
(* Initial state of the worker: RuntimeManager::new with an empty cache,   *)
(* and the supervising loop about to make its first connection attempt.   *)
(***************************************************************************)
\* tracked(b, model): how many processes the by-model index lists for model
tracked(b, model) == IF model \in DOMAIN b THEN Len(b[model]) ELSE 0

\* threads that call into the shared ProcessManager, and the call each is in
Threads == {1, 2}
Call(op, model, pid) == [op |-> op, model |-> model, pid |-> pid]
Idle == Call("idle", NONE, 0)

NoCmd == [cmd |-> ProvisioningCommand(NONE, NONE, NoConfig), resp |-> NoResponse, had |-> 0]

\* no cache file written, no backend exited, nobody holds the registry lock
HostInit ==
    /\ cortex_state_file = <<>>
    /\ json_file = [exists |-> FALSE, text |-> <<>>]
    /\ json_saved = <<>>
    /\ json_loaded = <<>>
    /\ exited = {}
    /\ registry_lock = [readers |-> 0, writer |-> FALSE]
    /\ chat = [k \in {1, 2, 3} |-> NONE]
    /\ unload = [st |-> "idle", model |-> NONE]
    /\ worker_threads = 2

WorkerInit ==
    /\ sup = "connecting"
    /\ current = BackoffInitial
    /\ delay = 0
    /\ failures = 0
    /\ msgQ = <<>>
    /\ msgRx = FALSE
    /\ wsBroken = FALSE
    /\ hbTask = FALSE
    /\ model_configs = EmptyMap
    /\ workers = EmptyMap
    /\ by_model = EmptyMap
    /\ registry = EmptyMap
    /\ next_backend_port = StartingPort
    /\ lastCmd = NoCmd
    /\ inflight = [t \in Threads |-> Idle]
    /\ sigTask = FALSE
    /\ model_config_store = NoFile

(***************************************************************************)
(* spawn: the loop around run_control_plane_client                         *)
(***************************************************************************)
\* connect_async fails: Err, next_delay, sleep
ConnectFail ==
    /\ sup = "connecting" /\ failures < MaxFailures
    /\ delay' = next_delay(current).delay
    /\ current' = next_delay(current).current
    /\ failures' = failures + 1
    /\ sup' = "backoff"
    /\ lastCmd' = NoCmd
    /\ UNCHANGED <<msgQ, msgRx, wsBroken, hbTask, model_configs, workers, by_model,
                   registry, next_backend_port, cortexVars, observeVars, pmVars, signalVars, storeVars, cacheVars, osVars, lockVars>>

\* the sleep ends and the loop calls run_control_plane_client again
BackoffElapsed ==
    /\ sup = "backoff"
    /\ sup' = "connecting"
    /\ lastCmd' = NoCmd
    /\ UNCHANGED <<current, delay, failures, msgQ, msgRx, wsBroken, hbTask, model_configs,
                   workers, by_model, registry, next_backend_port, cortexVars, observeVars, pmVars, signalVars, storeVars, cacheVars, osVars, lockVars>>

\* run_control_plane_client up to its receive loop: handshake, writer task,
\* Register queued, heartbeat task, shutdown-signal task
ConnectOk ==
    /\ sup = "connecting"
    /\ sup' = "active"
    /\ msgQ' = <<NeuronToCortex("register", NoResponse)>>
    /\ msgRx' = TRUE
    /\ wsBroken' = FALSE
    /\ hbTask' = TRUE
    /\ sigTask' = TRUE
    /\ lastCmd' = NoCmd
    /\ UNCHANGED <<current, delay, failures, model_configs, workers, by_model, registry,
                   next_backend_port, cortexVars, observeVars, pmVars, storeVars, cacheVars, osVars, lockVars>>

\* writer task: msg_rx.recv() then sink.send(); a send error ends the task
\* and drops msg_rx
NeuronWriterStep ==
    /\ msgRx /\ msgQ # <<>>
    /\ IF wsBroken
       THEN msgQ' = <<>> /\ msgRx' = FALSE
       ELSE msgQ' = msg_rx_recv(msgQ) /\ UNCHANGED msgRx
    /\ lastCmd' = NoCmd
    /\ UNCHANGED <<sup, current, delay, failures, wsBroken, hbTask, model_configs, workers,
                   by_model, registry, next_backend_port, cortexVars, observeVars, pmVars, signalVars, storeVars, cacheVars, osVars, lockVars>>

\* heartbeat task: sleep, then queue a Heartbeat or end when the queue is closed
HeartbeatTick ==
    /\ hbTask
    /\ msgRx => Len(msgQ) < MaxOutbound
    /\ LET sent == msg_tx_send(msgQ, msgRx, NeuronToCortex("heartbeat", NoResponse))
       IN /\ msgQ' = sent.q
          /\ hbTask' = sent.ok
    /\ lastCmd' = NoCmd
    /\ UNCHANGED <<sup, current, delay, failures, msgRx, wsBroken, model_configs, workers,
                   by_model, registry, next_backend_port, cortexVars, observeVars, pmVars, signalVars, storeVars, cacheVars, osVars, lockVars>>

\* the transport stops accepting writes
WriteSideBreaks ==
    /\ sup = "active" /\ ~wsBroken
    /\ wsBroken' = TRUE
    /\ lastCmd' = NoCmd
    /\ UNCHANGED <<sup, current, delay, failures, msgQ, msgRx, hbTask, model_configs, workers,
                   by_model, registry, next_backend_port, cortexVars, observeVars, pmVars, signalVars, storeVars, cacheVars, osVars, lockVars>>

\* shutdown-signal task: SIGTERM arrives, a Shutdown notice is queued (the
\* result of the send is ignored) and the task ends
ShutdownSignal ==
    /\ sigTask
    /\ msgRx => Len(msgQ) < MaxOutbound
    /\ msgQ' = msg_tx_send(msgQ, msgRx, NeuronToCortex("shutdown", NoResponse)).q
    /\ sigTask' = FALSE
    /\ lastCmd' = NoCmd
    /\ UNCHANGED <<sup, current, delay, failures, msgRx, wsBroken, hbTask, model_configs, workers,
                   by_model, registry, next_backend_port, cortexVars, observeVars, pmVars,
                   storeVars, cacheVars, osVars, lockVars>>

(***************************************************************************)
(* run_control_plane_client: the receive loop                              *)
(***************************************************************************)
\* a Provisioning frame: apply_provisioning, then the response is queued; if
\* the queue is closed the loop breaks, the client returns Ok and the
\* supervising loop ends
RecvProvisioning(cmd, spawn) ==
    /\ sup = "active"
    /\ spawn \in {0} \cup (Pids \ DOMAIN workers)
    /\ msgRx => Len(msgQ) < MaxOutbound
    /\ cmd.kind = "load" => PortRoom(next_backend_port)
    /\ LET out == apply_provisioning(
                    Runtime(model_configs, ProcessManager(workers, by_model), registry,
                            next_backend_port), cmd, spawn)
       IN /\ model_configs' = out.rt.configs
          /\ workers' = out.rt.pm.workers
          /\ by_model' = out.rt.pm.by_model
          /\ registry' = out.rt.entries
          /\ next_backend_port' = out.rt.port
          /\ lastCmd' = [cmd |-> cmd, resp |-> out.resp, had |-> tracked(by_model, cmd.model_id)]
          /\ LET sent == msg_tx_send(msgQ, msgRx, NeuronToCortex("provisioning_response", out.resp))
             IN /\ msgQ' = sent.q
                /\ sup' = IF sent.ok THEN sup ELSE "stopped"
    /\ UNCHANGED <<current, delay, failures, msgRx, wsBroken, hbTask, cortexVars, observeVars, pmVars, signalVars, storeVars, cacheVars, osVars, lockVars>>

\* RequestCapabilities, ShutdownNotice, an unparseable text frame, a binary
\* frame or a ping: logged, nothing else
RecvIgnored ==
    /\ sup = "active"
    /\ lastCmd' = NoCmd
    /\ UNCHANGED <<sup, current, delay, failures, msgQ, msgRx, wsBroken, hbTask, model_configs,
                   workers, by_model, registry, next_backend_port, cortexVars, observeVars, pmVars, signalVars, storeVars, cacheVars, osVars, lockVars>>

\* a Close frame, a read error or the end of the stream: the loop ends, the
\* client returns Ok(()) and the supervising loop breaks
SessionEnd ==
    /\ sup = "active"
    /\ sup' = "stopped"
    /\ lastCmd' = NoCmd
    /\ UNCHANGED <<current, delay, failures, msgQ, msgRx, wsBroken, hbTask, model_configs,
                   workers, by_model, registry, next_backend_port, cortexVars, observeVars, pmVars, signalVars, storeVars, cacheVars, osVars, lockVars>>

\* the worker process is stopped and started again: RuntimeManager::new
\* hydrates the configuration map from the cache file, everything else
\* starts empty
Restart ==
    /\ sup = "active"
    /\ model_configs' = load_or_default(model_config_store)
    /\ sup' = "connecting"
    /\ current' = BackoffInitial
    /\ delay' = 0
    /\ failures' = 0
    /\ msgQ' = <<>>
    /\ msgRx' = FALSE
    /\ wsBroken' = FALSE
    /\ hbTask' = FALSE
    /\ sigTask' = FALSE
    /\ workers' = EmptyMap
    /\ by_model' = EmptyMap
    /\ registry' = EmptyMap
    /\ next_backend_port' = StartingPort
    /\ lastCmd' = NoCmd
    /\ UNCHANGED <<cortexVars, observeVars, pmVars, storeVars, cacheVars, osVars, lockVars>>

WorkerNext ==
    \/ ConnectOk
    \/ NeuronWriterStep
    \/ HeartbeatTick
    \/ WriteSideBreaks
    \/ \E cmd \in ProvisioningCommands, spawn \in {0} \cup Pids : RecvProvisioning(cmd, spawn)
    \/ RecvIgnored
    \/ SessionEnd

(***************************************************************************)
(* Spec: the registry under registration, heartbeats, pruning and time.    *)
(***************************************************************************)
Init == CortexInit /\ WorkerInit /\ HostInit

Next ==
    \/ \E c \in Conns : Accept(c)
    \/ \E c \in Conns, f \in AllFrames : FirstFrameRegister(c, f)
    \/ \E c \in Conns, f \in AllFrames : FirstFrameReject(c, f)
    \/ \E c \in Conns : FirstFrameEof(c)
    \/ \E c \in Conns : AttachSender(c)
    \/ \E c \in Conns, f \in AllFrames : HandleRegister(c, f)
    \/ \E c \in Conns, f \in AllFrames : HandleHeartbeat(c, f)
    \/ \E c \in Conns, f \in AllFrames : HandleProvisioningResponse(c, f)
    \/ \E c \in Conns : ReaderExit(c)
    \/ \E c \in Conns : SockDown(c)
    \/ Prune
    \/ Tick

Spec == Init /\ [][Next]_vars

(***************************************************************************)
(* SpecSession: connection handling and targeted sends, at one instant.    *)
(***************************************************************************)
NextSession ==
    \/ \E c \in Conns : Accept(c)
    \/ \E c \in Conns, f \in AllFrames : FirstFrameRegister(c, f)
    \/ \E c \in Conns, f \in AllFrames : FirstFrameReject(c, f)
    \/ \E c \in Conns : FirstFrameEof(c)
    \/ \E c \in Conns : AttachSender(c)
    \/ \E c \in Conns : WriterStep(c)
    \/ \E c \in Conns, f \in AllFrames : HandleRegister(c, f)
    \/ \E c \in Conns, f \in AllFrames : HandleProvisioningResponse(c, f)
    \/ \E c \in Conns : ReaderExit(c)
    \/ \E c \in Conns : SockDown(c)
    \/ \E id \in SendIds : SendToNeuron(id, RequestCapabilities)
    \/ \E id \in SendIds : SendProvisioning(id, LoadModelCmd)

SpecSession == Init /\ [][NextSession]_vars

(***************************************************************************)
(* save_cortex_state_to_cache: the descriptors written to the cache file   *)
(* are those of the records with a recent heartbeat and a stable node_id.  *)
(***************************************************************************)
PersistThreshold == 300

save_cortex_state_any_age(ns, t) ==
    LET kept == SelectSeq(ns, LAMBDA r : r.descriptor.node_id # NONE)
    IN [i \in 1..Len(kept) |-> kept[i].descriptor]

save_cortex_state_to_cache(ns, t) ==
    LET kept == SelectSeq(ns, LAMBDA r : /\ ~(duration_since(t, r.last_heartbeat) > PersistThreshold)
                                         /\ r.descriptor.node_id # NONE)
    IN [i \in 1..Len(kept) |-> kept[i].descriptor]

\* models_by_neuron of the saved state: the non-empty status lists of the
\* workers whose descriptor is saved
models_by_neuron(ns, t, store) ==
    LET saved == save_cortex_state_to_cache(ns, t)
        ids == {saved[i].node_id : i \in 1..Len(saved)}
    IN [id \in {n \in ids : list_for_neuron(store, n) # <<>>} |-> list_for_neuron(store, id)]

\* CachedCortexState { neurons, models_by_neuron }
CachedCortexState(ns, t, store) ==
    [neurons |-> save_cortex_state_to_cache(ns, t),
     models_by_neuron |-> models_by_neuron(ns, t, store)]

\* store.save(&state) at the end of save_cortex_state_to_cache; the file is
\* the empty sequence while nothing has been written
SaveCortexState ==
    /\ cortex_state_file = <<>>
    /\ cortex_state_file' = <<CachedCortexState(neurons, now, model_store)>>
    /\ UNCHANGED <<json_file, json_saved, json_loaded, cortexVars, workerVars, observeVars, pmVars,
                   signalVars, storeVars, osVars, lockVars>>

(***************************************************************************)
(* SpecCache: the control node at shutdown.  Its registry holds up to two  *)
(* records, last refreshed at one of LastSeen; the provisioning store      *)
(* holds statuses for some worker ids, registered or not; the clock is at  *)
(* one of ShutdownAt, on either side of the persist threshold.             *)
(***************************************************************************)
LastSeen == {0, 100, 101}
ShutdownAt == {101, 400, 401}

CachedRecords == {ConnectedNeuron(NeuronDescriptor(n, "a"), t, 0) : n \in NodeIds \cup {NONE}, t \in LastSeen}

CachedRegistries ==
    {<<>>} \cup {<<r>> : r \in CachedRecords}
           \cup {p \in CachedRecords \X CachedRecords :
                     \/ p[1].descriptor.node_id # p[2].descriptor.node_id
                     \/ p[2].descriptor.node_id = NONE}

CachedStores ==
    {[n \in ids |-> <<ResponseStatus>>] : ids \in SUBSET NodeIds}

InitCache ==
    /\ now \in ShutdownAt
    /\ neurons \in CachedRegistries
    /\ conn = [c \in Conns |-> [st |-> "none", node_id |-> NONE, id |-> NONE]]
    /\ sockUp = [c \in Conns |-> FALSE]
    /\ outQ = [c \in Conns |-> <<>>]
    /\ rxAlive = [c \in Conns |-> FALSE]
    /\ hbNext = [c \in Conns |-> 0]
    /\ pruneDue = PruneInterval
    /\ bus = <<>>
    /\ lastUpsert = [n \in NodeIds \cup {NONE} |-> NONE]
    /\ lastOp = Other
    /\ obs = [o \in Observers |-> NoObserver]
    /\ model_store \in CachedStores
    /\ WorkerInit
    /\ HostInit

NextCache == SaveCortexState

SpecCache == InitCache /\ [][NextCache]_vars

(***************************************************************************)
(* JsonStore.  A file is absent or holds a text; a text is a sequence of   *)
(* tokens: "{" and "}" around the members of the one JSON object, a key    *)
(* and a value token per member, and " " for the white space the pretty    *)
(* printer puts between them.  The stored value is TestState's map.        *)
(***************************************************************************)
JsonKeys == {"foo", "baz"}
JsonVals == {"bar", "qux"}
JsonValues == UNION {[ks -> JsonVals] : ks \in SUBSET JsonKeys}

JsonFile(exists, text) == [exists |-> exists, text |-> text]
Missing == JsonFile(FALSE, <<>>)

\* the orders in which a HashMap with these keys can be iterated
Orders(ks) == {o \in [1..Cardinality(ks) -> ks] : \A i, j \in DOMAIN o : o[i] = o[j] => i = j}

RECURSIVE members(_, _)
members(v, order) ==
    IF order = <<>> THEN <<>>
    ELSE <<" ", Head(order), v[Head(order)]>> \o members(v, Tail(order))

\* serde_json::to_string_pretty
to_string_pretty(v, order) == <<"{">> \o members(v, order) \o <<" ", "}">>

\* str::trim
RECURSIVE trim_start(_)
trim_start(text) ==
    IF text # <<>> /\ Head(text) = " " THEN trim_start(Tail(text)) ELSE text

RECURSIVE trim_end(_)
trim_end(text) ==
    IF text # <<>> /\ text[Len(text)] = " " THEN trim_end(SubSeq(text, 1, Len(text) - 1)) ELSE text

trim(text) == trim_end(trim_start(text))

\* serde_json::from_str::<TestState>: white space is skipped, a later member
\* with the same key replaces an earlier one, anything but one object is an
\* error
RECURSIVE parse_members(_, _)
parse_members(toks, acc) ==
    IF toks = <<>> THEN acc
    ELSE parse_members(SubSeq(toks, 3, Len(toks)), Put(acc, toks[1], toks[2]))

Parsed(ok, value) == [ok |-> ok, value |-> value]

from_str_first_member(text) ==
    LET toks == SelectSeq(text, LAMBDA t : t # " ")
    IN IF Len(toks) >= 2 /\ toks[1] = "{" /\ toks[Len(toks)] = "}" /\ Len(toks) % 2 = 0
       THEN Parsed(TRUE, parse_members(SubSeq(toks, 2, IF Len(toks) > 2 THEN 3 ELSE 1), EmptyMap))
       ELSE Parsed(FALSE, EmptyMap)

from_str(text) ==
    LET toks == SelectSeq(text, LAMBDA t : t # " ")
    IN IF Len(toks) >= 2 /\ toks[1] = "{" /\ toks[Len(toks)] = "}" /\ Len(toks) % 2 = 0
       THEN Parsed(TRUE, parse_members(SubSeq(toks, 2, Len(toks) - 1), EmptyMap))
       ELSE Parsed(FALSE, EmptyMap)

\* JsonStore::load_optional: some |-> FALSE is Ok(None), ok |-> FALSE is Err
load_optional(file) ==
    IF ~file.exists THEN [ok |-> TRUE, some |-> FALSE, value |-> EmptyMap]
    ELSE IF trim(file.text) = <<>> THEN [ok |-> TRUE, some |-> FALSE, value |-> EmptyMap]
    ELSE [ok |-> from_str(file.text).ok, some |-> TRUE, value |-> from_str(file.text).value]

\* JsonStore::load_or_default of a TestState, whose default is the empty map
json_load_or_default(file) ==
    LET opt == load_optional(file)
    IN IF ~opt.ok THEN Parsed(FALSE, EmptyMap)
       ELSE IF opt.some THEN Parsed(TRUE, opt.value)
       ELSE Parsed(TRUE, EmptyMap)

\* the record of saves keeps the latest MaxSaves values
MaxSaves == 2
LatestSaves(vs) == IF Len(vs) > MaxSaves THEN Tail(vs) ELSE vs

\* JsonStore::save: the text goes to a temporary file that is renamed over
\* the store's file
Save(v) ==
    /\ \E order \in Orders(DOMAIN v) :
          json_file' = JsonFile(TRUE, to_string_pretty(v, order))
    /\ json_saved' = LatestSaves(Append(json_saved, v))
    /\ json_loaded' = <<>>
    /\ UNCHANGED <<cortex_state_file, cortexVars, workerVars, observeVars, pmVars,
                   signalVars, storeVars, osVars, lockVars>>

\* JsonStore::load_or_default
Load ==
    /\ json_loaded = <<>>
    /\ json_loaded' = <<json_load_or_default(json_file)>>
    /\ UNCHANGED <<cortex_state_file, json_file, json_saved, cortexVars, workerVars,
                   observeVars, pmVars, signalVars, storeVars, osVars, lockVars>>

\* JsonStore::clear
Clear ==
    /\ json_file.exists
    /\ json_file' = Missing
    /\ json_saved' = <<>>
    /\ json_loaded' = <<>>
    /\ UNCHANGED <<cortex_state_file, cortexVars, workerVars, observeVars, pmVars,
                   signalVars, storeVars, osVars, lockVars>>

(***************************************************************************)
(* SpecJson: one store whose file starts missing, empty, or holding only   *)
(* white space, under any sequence of save, load_or_default and clear.     *)
(***************************************************************************)
BlankFiles == {Missing, JsonFile(TRUE, <<>>), JsonFile(TRUE, <<" ", " ">>)}

InitJson ==
    /\ CortexInit
    /\ WorkerInit
    /\ cortex_state_file = <<>>
    /\ json_file \in BlankFiles
    /\ json_saved = <<>>
    /\ json_loaded = <<>>
    /\ exited = {}
    /\ registry_lock = [readers |-> 0, writer |-> FALSE]
    /\ chat = [k \in {1, 2, 3} |-> NONE]
    /\ unload = [st |-> "idle", model |-> NONE]
    /\ worker_threads = 2

NextJson ==
    \/ \E v \in JsonValues : Save(v)
    \/ Load
    \/ Clear

SpecJson == InitJson /\ [][NextJson]_vars

(***************************************************************************)
(* SpecHeartbeat: sessions whose heartbeats may carry any neuron_id and    *)
(* may stop coming while the connection stays open, under the prune loop.  *)
(***************************************************************************)
\* the Heartbeat arm of handle_neuron_message: the record looked up is the
\* one named by the message's neuron_id
HeartbeatArm(c, f) ==
    /\ conn[c].st = "active" /\ sockUp[c]
    /\ parse_ws_json(f).ok /\ f.kind = "heartbeat"
    /\ neurons' = update_heartbeat(neurons, f.node_id, now)
    /\ CanPublish
    /\ bus' = publish(bus, ObserveEvent("neuron_heartbeat", f.node_id, NONE))
    /\ obs' = bus_send(obs, ObserveEvent("neuron_heartbeat", f.node_id, NONE))
    /\ lastOp' = Op("heartbeat", conn[c].id, f.node_id,
                    IF FindSome(neurons, f.node_id) # 0 THEN "refreshed" ELSE "absent")
    /\ UNCHANGED <<now, conn, sockUp, outQ, rxAlive, hbNext, pruneDue, lastUpsert, workerVars, model_store, pmVars, signalVars, storeVars, cacheVars, osVars, lockVars>>

\* time passes; no worker has to send anything
Elapse ==
    /\ now + HeartbeatInterval <= MaxTime
    /\ now < pruneDue
    /\ \A c \in Conns : conn[c].st \notin {"awaiting", "registering"}
    /\ now' = now + HeartbeatInterval
    /\ lastOp' = Other
    /\ UNCHANGED <<neurons, conn, sockUp, outQ, rxAlive, hbNext, pruneDue, bus, lastUpsert, workerVars, observeVars, pmVars, signalVars, storeVars, cacheVars, osVars, lockVars>>

NextHeartbeat ==
    \/ \E c \in Conns :
          \/ Accept(c)
          \/ \E f \in {r \in RegisterFrames : r.label = "a" /\ r.node_id # NONE} :
                \/ FirstFrameRegister(c, f)
                \/ HandleRegister(c, f)
          \/ AttachSender(c)
          \/ \E f \in {h \in HeartbeatFrames : h.node_id \in NodeIds} : HeartbeatArm(c, f)
    \/ Prune
    \/ Elapse

SpecHeartbeat == Init /\ [][NextHeartbeat]_vars

(***************************************************************************)
(* SpecReconnect: workers with stable ids that connect, lose their         *)
(* connection and connect again, while commands are sent to them.          *)
(* SpecReconnectFair adds what the tokio runtime guarantees: a reader task *)
(* whose stream has ended and a writer task with a queued message run.     *)
(***************************************************************************)
NextReconnect ==
    \/ \E c \in Conns :
          \/ Accept(c)
          \/ \E f \in {r \in RegisterFrames : r.label = "a" /\ r.node_id # NONE} :
                FirstFrameRegister(c, f)
          \/ AttachSender(c)
          \/ WriterStep(c)
          \/ ReaderExit(c)
          \/ SockDown(c)
    \/ \E id \in NodeIds : SendToNeuron(id, RequestCapabilities)
    \/ \E id \in NodeIds : SendProvisioning(id, LoadModelCmd)

SpecReconnect == Init /\ [][NextReconnect]_vars

SpecReconnectFair ==
    /\ Init /\ [][NextReconnect]_vars
    /\ \A c \in Conns : WF_vars(ReaderExit(c)) /\ WF_vars(WriterStep(c))

(***************************************************************************)
(* SpecAnonymous: sessions of a worker that registers without a node_id    *)
(* and of a worker whose node_id is the text the control node makes up for *)
(* the first connection's peer address.                                    *)
(***************************************************************************)
PeerNamedFrames == {Frame("register", NONE, "a"), Frame("register", PeerId(1), "a")}

NextAnonymous ==
    \/ \E c \in Conns :
          \/ Accept(c)
          \/ \E f \in PeerNamedFrames : FirstFrameRegister(c, f)
          \/ AttachSender(c)
          \/ WriterStep(c)
          \/ ReaderExit(c)
          \/ SockDown(c)
    \/ \E id \in SendIds : SendToNeuron(id, RequestCapabilities)

SpecAnonymous == Init /\ [][NextAnonymous]_vars

(***************************************************************************)
(* SpecEvict: sends to workers beside the prune loop, with time passing.   *)
(***************************************************************************)
NextEvict ==
    \/ \E c \in Conns :
          \/ Accept(c)
          \/ \E f \in {r \in RegisterFrames : r.label = "a"} : FirstFrameRegister(c, f)
          \/ AttachSender(c)
          \/ WriterStep(c)
          \/ \E f \in HeartbeatFrames : HandleHeartbeat(c, f)
          \/ ReaderExit(c)
          \/ SockDown(c)
    \/ \E id \in SendIds : SendToNeuron(id, RequestCapabilities)
    \/ Prune
    \/ Tick

SpecEvict == Init /\ [][NextEvict]_vars

(***************************************************************************)
(* SpecObserve: monitoring connections beside the control-plane sessions   *)
(* whose handlers publish on the bus.                                      *)
(***************************************************************************)
NextObserve ==
    \/ \E o \in Observers :
          \/ ObserveAccept(o)
          \/ BuildSnapshot(o)
          \/ SendSnapshot(o)
          \/ ObserveRecv(o)
          \/ ObserveClientGone(o)
          \/ ObserveSockDown(o)
    \/ \E c \in Conns :
          \/ Accept(c)
          \/ \E f \in {r \in RegisterFrames : r.label = "a"} : FirstFrameRegister(c, f)
          \/ AttachSender(c)
          \/ \E f \in ResponseFrames : HandleProvisioningResponse(c, f)
    \/ SendProvisioning("w1", LoadModelCmd)

SpecObserve == Init /\ [][NextObserve]_vars

(***************************************************************************)
(* SpecWorker: the worker's session and provisioning, from the first       *)
(* connection attempt on.                                                  *)
(***************************************************************************)
SpecWorker == Init /\ [][WorkerNext]_vars

(***************************************************************************)
(* SpecSupervisor: the supervising loop with its backoff, and the session  *)
(* of a worker that holds no model configuration.                          *)
(***************************************************************************)
UnconfiguredCommands == {cmd \in ProvisioningCommands : cmd.kind \in {"load", "unload"}}

SupervisorNext ==
    \/ ConnectFail
    \/ BackoffElapsed
    \/ ConnectOk
    \/ NeuronWriterStep
    \/ HeartbeatTick
    \/ WriteSideBreaks
    \/ \E cmd \in UnconfiguredCommands : RecvProvisioning(cmd, 0)
    \/ RecvIgnored
    \/ SessionEnd

SpecSupervisor == Init /\ [][SupervisorNext]_vars

(***************************************************************************)
(* ProcessManager called from several threads through its shared handle.   *)
(* Each call is two critical sections, one per map; inflight[t] is the     *)
(* call thread t is in between the two.                                     *)
(***************************************************************************)
InIndex(b, pid) == \E m \in DOMAIN b : \E i \in 1..Len(b[m]) : b[m][i] = pid

\* process ids the OS can give a new child: one that no tracked or not yet
\* untracked child holds, or one whose process has exited and been released
FreePids ==
    {pid \in Pids : /\ \/ pid \notin DOMAIN workers /\ ~InIndex(by_model, pid)
                       \/ pid \in exited
                    /\ \A t \in Threads : inflight[t].pid # pid}

PmUnchanged ==
    /\ lastCmd' = NoCmd
    /\ UNCHANGED <<sup, current, delay, failures, msgQ, msgRx, wsBroken, hbTask, model_configs,
                   registry, next_backend_port, cortexVars, observeVars, signalVars, storeVars, cacheVars, lockVars>>

\* spawn_worker_with_env, first critical section: map.insert(pid, child)
SpawnTrackPid(t, model, pid) ==
    /\ inflight[t] = Idle
    /\ pid \in FreePids
    /\ workers' = track_by_pid(ProcessManager(workers, by_model), model, pid).workers
    /\ inflight' = [inflight EXCEPT ![t] = Call("spawn", model, pid)]
    /\ exited' = exited \ {pid}
    /\ UNCHANGED by_model
    /\ PmUnchanged

\* spawn_worker_with_env, second critical section: pids.push(pid)
SpawnTrackModel(t) ==
    /\ inflight[t].op = "spawn"
    /\ by_model' = track_by_model(ProcessManager(workers, by_model), inflight[t].model,
                                  inflight[t].pid).by_model
    /\ inflight' = [inflight EXCEPT ![t] = Idle]
    /\ UNCHANGED <<workers, exited>>
    /\ PmUnchanged

\* the calls of terminate_worker_by_pid that are between the two sections
Terminating == {"terminate", "terminate_kill_failed"}

\* terminate_worker_by_pid, first critical section: map.remove(&pid) and, for
\* a tracked pid, child.kill(), whose Err is logged; killed is its outcome
TerminateRemovePid(t, pid, killed) ==
    /\ inflight[t] = Idle
    /\ pid \notin DOMAIN workers => killed
    /\ workers' = remove_by_pid(ProcessManager(workers, by_model), pid).workers
    /\ inflight' = [inflight EXCEPT ![t] =
                        Call(IF killed THEN "terminate" ELSE "terminate_kill_failed", NONE, pid)]
    /\ exited' = exited \ {pid}
    /\ UNCHANGED by_model
    /\ PmUnchanged

\* terminate_worker_by_pid, second critical section: by_model.retain(..)
TerminateCleanIndex(t) ==
    /\ inflight[t].op \in Terminating
    /\ by_model' = clean_by_model(ProcessManager(workers, by_model), inflight[t].pid).by_model
    /\ inflight' = [inflight EXCEPT ![t] = Idle]
    /\ UNCHANGED <<workers, exited>>
    /\ PmUnchanged

\* a tracked backend exits on its own and the OS releases its pid; the
\* process manager is not told and keeps the pid in both indices (exits are
\* followed while every list of the by-model index is shorter than MaxIndexed)
MaxIndexed == 3

BackendExits(pid) ==
    /\ pid \in DOMAIN workers
    /\ \A m \in DOMAIN by_model : Len(by_model[m]) < MaxIndexed
    /\ pid \notin exited
    /\ \A t \in Threads : inflight[t].pid # pid
    /\ exited' = exited \cup {pid}
    /\ UNCHANGED <<workers, by_model, inflight>>
    /\ PmUnchanged

NextProcess ==
    \/ \E t \in Threads, model \in Models, pid \in Pids : SpawnTrackPid(t, model, pid)
    \/ \E t \in Threads : SpawnTrackModel(t)
    \/ \E t \in Threads, pid \in Pids, killed \in BOOLEAN : TerminateRemovePid(t, pid, killed)
    \/ \E t \in Threads : TerminateCleanIndex(t)

SpecProcess == Init /\ [][NextProcess]_vars

(***************************************************************************)
(* The registry lock.  execute_chat takes a read guard and keeps it while  *)
(* it awaits the backend's answer; handle_unload_model, called from the    *)
(* receive loop's task, waits for the write guard with                     *)
(* futures::executor::block_on, which keeps the runtime's worker thread it *)
(* runs on until the guard is granted.  A task is polled only on a worker  *)
(* thread that is not kept that way.  #[tokio::main] builds the runtime    *)
(* with one worker thread per core of the host.                            *)
(***************************************************************************)
ChatTasks == {1, 2, 3}
ThreadCounts == {1, 2}

RwLock(readers, writer) == [readers |-> readers, writer |-> writer]
Unload(st, model) == [st |-> st, model |-> model]
NotUnloading == Unload("idle", NONE)

\* worker threads not kept by a block_on
FreeThreads == worker_threads - (IF unload.st = "blocked" THEN 1 ELSE 0)

LockUnchanged ==
    UNCHANGED <<sup, current, delay, failures, msgQ, msgRx, wsBroken, hbTask, model_configs,
                next_backend_port, lastCmd, cortexVars, observeVars, pmVars, signalVars,
                storeVars, cacheVars, osVars, worker_threads>>

\* execute_chat: registry.read().await, get_runtime_for_model(model_id)?,
\* then runtime.chat(request) is awaited with the guard held.  tokio's RwLock
\* queues a reader behind a waiting writer.
ExecuteChatBegin(k, model) ==
    /\ chat[k] = NONE
    /\ FreeThreads > 0
    /\ ~registry_lock.writer /\ unload.st # "blocked"
    /\ model \in DOMAIN registry
    /\ registry_lock' = RwLock(registry_lock.readers + 1, FALSE)
    /\ chat' = [chat EXCEPT ![k] = model]
    /\ UNCHANGED <<unload, workers, by_model, registry>>
    /\ LockUnchanged

\* the backend call returns (an answer, an error, or the client's timeout):
\* the task is polled, execute_chat returns and the read guard is dropped
ExecuteChatEnd(k) ==
    /\ chat[k] # NONE
    /\ FreeThreads > 0
    /\ registry_lock' = RwLock(registry_lock.readers - 1, registry_lock.writer)
    /\ chat' = [chat EXCEPT ![k] = NONE]
    /\ UNCHANGED <<unload, workers, by_model, registry>>
    /\ LockUnchanged

\* handle_unload_model up to block_on(registry_arc.write()): the workers of
\* the model are terminated, then the write guard is taken at once when no
\* guard is out, and waited for on the thread otherwise
UnloadBlockOn(model) ==
    /\ unload = NotUnloading
    /\ FreeThreads > 0
    /\ workers' = terminate_workers_for_model(ProcessManager(workers, by_model), model).workers
    /\ by_model' = terminate_workers_for_model(ProcessManager(workers, by_model), model).by_model
    /\ IF registry_lock.readers = 0
       THEN /\ registry_lock' = RwLock(0, TRUE)
            /\ unload' = Unload("writing", model)
       ELSE /\ unload' = Unload("blocked", model)
            /\ UNCHANGED registry_lock
    /\ UNCHANGED <<chat, registry>>
    /\ LockUnchanged

\* the last read guard has been dropped: the waiting block_on gets the write guard
UnloadWriteGranted ==
    /\ unload.st = "blocked"
    /\ registry_lock.readers = 0
    /\ registry_lock' = RwLock(0, TRUE)
    /\ unload' = Unload("writing", unload.model)
    /\ UNCHANGED <<chat, workers, by_model, registry>>
    /\ LockUnchanged

\* unregister_chat_model under the write guard, the guard is dropped and
\* handle_unload_model returns ProvisioningResponse::Ok
UnloadRespond ==
    /\ unload.st = "writing"
    /\ registry' = unregister_chat_model(registry, unload.model)
    /\ registry_lock' = RwLock(registry_lock.readers, FALSE)
    /\ unload' = NotUnloading
    /\ UNCHANGED <<chat, workers, by_model>>
    /\ LockUnchanged

(***************************************************************************)
(* SpecLock: a worker serving both models, on a host with one core or with *)
(* two, takes chat requests while UnloadModel commands arrive.             *)
(* SpecLockFair adds that backend calls return and that a task that can    *)
(* run is run.                                                             *)
(***************************************************************************)
ServingBoth ==
    spawn_worker_with_env(spawn_worker_with_env(ProcessManager(EmptyMap, EmptyMap), "m1", 1), "m2", 2)

InitLock ==
    /\ CortexInit
    /\ sup = "active"
    /\ current = BackoffInitial
    /\ delay = 0
    /\ failures = 0
    /\ msgQ = <<>>
    /\ msgRx = TRUE
    /\ wsBroken = FALSE
    /\ hbTask = TRUE
    /\ sigTask = TRUE
    /\ model_configs = EmptyMap
    /\ workers = ServingBoth.workers
    /\ by_model = ServingBoth.by_model
    /\ registry = register_chat_model(register_chat_model(EmptyMap, "m1", Url("127.0.0.1", StartingPort), 1),
                                      "m2", Url("127.0.0.1", StartingPort + 1), 2)
    /\ next_backend_port = StartingPort + 2
    /\ lastCmd = NoCmd
    /\ inflight = [t \in Threads |-> Idle]
    /\ model_config_store = NoFile
    /\ cortex_state_file = <<>>
    /\ json_file = Missing
    /\ json_saved = <<>>
    /\ json_loaded = <<>>
    /\ exited = {}
    /\ registry_lock = RwLock(0, FALSE)
    /\ chat = [k \in ChatTasks |-> NONE]
    /\ unload = NotUnloading
    /\ worker_threads \in ThreadCounts

NextLock ==
    \/ \E k \in ChatTasks, model \in Models : ExecuteChatBegin(k, model)
    \/ \E k \in ChatTasks : ExecuteChatEnd(k)
    \/ \E model \in Models : UnloadBlockOn(model)
    \/ UnloadWriteGranted
    \/ UnloadRespond

SpecLock == InitLock /\ [][NextLock]_vars

SpecLockFair ==
    /\ InitLock /\ [][NextLock]_vars
    /\ \A k \in ChatTasks : WF_vars(ExecuteChatEnd(k))
    /\ WF_vars(UnloadWriteGranted)
    /\ WF_vars(UnloadRespond)

(***************************************************************************)
(* SpecPidReuse: the process manager's calls, with backends that exit on   *)
(* their own and pids that the OS gives out again.                         *)
(***************************************************************************)
NextPidReuse ==
    \/ NextProcess
    \/ \E pid \in Pids : BackendExits(pid)

SpecPidReuse == Init /\ [][NextPidReuse]_vars

(***************************************************************************)
(* SpecFrames: frames outside NeuronToCortex arriving on Active            *)
(* connections.                                                            *)
(***************************************************************************)
NextFrames ==
    \/ \E c \in Conns :
          \/ Accept(c)
          \/ \E f \in {r \in RegisterFrames : r.label = "a"} : FirstFrameRegister(c, f)
          \/ AttachSender(c)
          \/ WriterStep(c)
          \/ \E f \in BadFrames : HandleUnparseable(c, f)
          \/ ReaderExit(c)
          \/ SockDown(c)
    \/ SendToNeuron("w1", RequestCapabilities)

SpecFrames == Init /\ [][NextFrames]_vars

(***************************************************************************)
(* SpecShutdown: a worker session that gets the termination signal, and    *)
(* the control node's handler for one connection.                          *)
(***************************************************************************)
NextShutdown ==
    \/ ConnectOk
    \/ NeuronWriterStep
    \/ HeartbeatTick
    \/ ShutdownSignal
    \/ WriteSideBreaks
    \/ SessionEnd
    \/ Accept(1)
    \/ FirstFrameRegister(1, Frame("register", "w1", "a"))
    \/ AttachSender(1)
    \/ \E f \in BadFrames : HandleUnparseable(1, f)
    \/ ReaderExit(1)
    \/ SockDown(1)

SpecShutdown == Init /\ [][NextShutdown]_vars

(***************************************************************************)
(* SpecProvision: the provisioning handlers for one model under every      *)
(* kind of configuration, with spawns that succeed or fail.                *)
(***************************************************************************)
ConfigsOfOneModel ==
    {ModelConfig("m1", kind, "serve", listen) :
        kind \in {"llama_cpp", "openai_proxy"}, listen \in {NoUrl, ExplicitEndpoint}}

CommandsOfOneModel ==
    {ProvisioningCommand("upsert", cfg.id, cfg) : cfg \in ConfigsOfOneModel}
        \cup {ProvisioningCommand(k, "m1", NoConfig) : k \in {"load", "unload"}}

NextProvision ==
    \/ ConnectOk
    \/ NeuronWriterStep
    \/ \E cmd \in CommandsOfOneModel, spawn \in {0} \cup Pids : RecvProvisioning(cmd, spawn)

SpecProvision == Init /\ [][NextProvision]_vars

(***************************************************************************)
(* SpecPorts: a worker late in a long life.  It is in a session with an    *)
(* empty outbound queue, holds a llama_cpp configuration for m1, and its   *)
(* LoadModel commands, whose spawns failed, have taken every port up to    *)
(* MaxPorts below the largest u16.                                         *)
(***************************************************************************)
InitPorts ==
    /\ CortexInit
    /\ sup = "active"
    /\ current = BackoffInitial
    /\ delay = 0
    /\ failures = 0
    /\ msgQ = <<>>
    /\ msgRx = TRUE
    /\ wsBroken = FALSE
    /\ hbTask = TRUE
    /\ sigTask = TRUE
    /\ model_configs = upsert(EmptyMap, ModelConfig("m1", "llama_cpp", "serve", NoUrl))
    /\ workers = EmptyMap
    /\ by_model = EmptyMap
    /\ registry = EmptyMap
    /\ next_backend_port = U16Max - MaxPorts
    /\ lastCmd = NoCmd
    /\ inflight = [t \in Threads |-> Idle]
    /\ model_config_store = NoFile
    /\ HostInit

NextPorts ==
    \/ NeuronWriterStep
    \/ \E cmd \in CommandsOfOneModel, spawn \in {0} \cup Pids : RecvProvisioning(cmd, spawn)

SpecPorts == InitPorts /\ [][NextPorts]_vars

(***************************************************************************)
(* SpecRestart: configurations accepted by a worker that is then           *)
(* restarted.                                                              *)
(***************************************************************************)
NextRestart ==
    \/ ConnectOk
    \/ NeuronWriterStep
    \/ HeartbeatTick
    \/ \E cmd \in CommandsOfOneModel, spawn \in {0} \cup Pids : RecvProvisioning(cmd, spawn)
    \/ Restart

SpecRestart == Init /\ [][NextRestart]_vars

(***************************************************************************)
(* SpecOrder: one control-plane connection seen from both ends: the        *)
(* worker's session with its outbound queue, and the control node's        *)
(* handler for its first connection with the queue it writes from.         *)
(***************************************************************************)
NextOrder ==
    \/ ConnectOk
    \/ NeuronWriterStep
    \/ HeartbeatTick
    \/ WriteSideBreaks
    \/ \E cmd \in UnconfiguredCommands : RecvProvisioning(cmd, 0)
    \/ SessionEnd
    \/ Accept(1)
    \/ FirstFrameRegister(1, Frame("register", "w1", "a"))
    \/ AttachSender(1)
    \/ WriterStep(1)
    \/ SockDown(1)
    \/ SendToNeuron("w1", RequestCapabilities)
    \/ SendProvisioning("w1", LoadModelCmd)

SpecOrder == Init /\ [][NextOrder]_vars

(***************************************************************************)
(* Properties of the fleet registry (Spec).                                *)
(***************************************************************************)
Positions == 1..Len(neurons)

\* C1: the registry never holds two records with the same stable id; every
\* record carries the descriptor last upserted for its id; and right after
\* upsert(d) the record of d's id has descriptor d and heartbeat instant now.
C1_OneRecordPerIdLastUpsertWins ==
    /\ \A i, j \in Positions :
        (i # j /\ neurons[i].descriptor.node_id # NONE)
            => neurons[i].descriptor.node_id # neurons[j].descriptor.node_id
    /\ \A i \in Positions :
        neurons[i].descriptor.label = lastUpsert[neurons[i].descriptor.node_id]
    /\ lastOp.op = "upsert" =>
        \E i \in Positions :
            /\ neurons[i].descriptor = NeuronDescriptor(lastOp.id, lastUpsert[lastOp.id])
            /\ neurons[i].last_heartbeat = now

\* two sessions have registered the same stable id, the second one later and
\* with another label
C1_Witness ==
    /\ lastOp.op = "upsert" /\ lastOp.id = "w1" /\ now > 0
    /\ conn[1].node_id = "w1" /\ conn[2].node_id = "w1"
    /\ conn[1].st = "active" /\ conn[2].st = "registering"
    /\ Len(neurons) = 1 /\ neurons[1].descriptor.label = "b"

\* C3: a worker whose session is up and that sends its heartbeats on time has
\* a record in the registry, whether or not it registered with a stable id.
C3_HeartbeatingWorkerNeverPruned ==
    \A c \in Conns :
        (conn[c].st = "active" /\ sockUp[c])
            => \E i \in Positions : neurons[i].descriptor.node_id = conn[c].node_id

\* the same, for workers that registered with a stable id only
C3_StableHeartbeatingWorkerNeverPruned ==
    \A c \in Conns :
        (conn[c].st = "active" /\ sockUp[c] /\ conn[c].node_id # NONE)
            => \E i \in Positions : neurons[i].descriptor.node_id = conn[c].node_id

\* C4: a prune step keeps exactly the records whose time since the last
\* heartbeat is not greater than the timeout, unchanged and in order, and
\* touches no outbound channel.
C4_PruneRemovesIffStale ==
    [][lastOp'.op = "prune" =>
        /\ neurons' = SelectSeq(neurons, LAMBDA r : ~(now - r.last_heartbeat > PruneTimeout))
        /\ outQ' = outQ /\ rxAlive' = rxAlive]_vars

\* a prune has just removed the record of "w1" and kept a record whose age
\* is exactly the timeout
C4_Witness ==
    /\ lastOp.op = "prune"
    /\ lastUpsert["w1"] # NONE
    /\ \A i \in Positions : neurons[i].descriptor.node_id # "w1"
    /\ \E i \in Positions : now - neurons[i].last_heartbeat = PruneTimeout

(***************************************************************************)
(* Properties of connection handling and targeted sends (SpecSession).     *)
(***************************************************************************)
\* C9: send(id, msg) reports "unknown worker" when no record has stable id
\* id and "no channel" when the record has no sender attached; in both cases
\* the registry and every outbound queue are as before.
C9_SendFailsWithoutSideEffect ==
    [][lastOp'.op = "send" =>
        /\ (~\E i \in Positions : neurons[i].descriptor.node_id = lastOp'.id)
            => lastOp'.result = "unknown"
        /\ (\E i \in Positions : neurons[i].descriptor.node_id = lastOp'.id
                                    /\ neurons[i].outbound_tx = 0)
            => lastOp'.result = "no_channel"
        /\ lastOp'.result \in {"unknown", "no_channel"}
            => neurons' = neurons /\ outQ' = outQ /\ rxAlive' = rxAlive]_vars

\* a send has just failed for a worker that is registered but whose sender
\* is not attached yet
C9_Witness ==
    /\ lastOp.op = "send" /\ lastOp.result = "no_channel"
    /\ \E c \in Conns : conn[c].st = "registering" /\ conn[c].id = lastOp.id

\* C10: when the first frame of a connection is not a Register, the handler
\* ends the connection: no registry record, no channel and no event.
C10_FirstFrameMustBeRegister ==
    [][(lastOp'.result \in {"registered", "rejected"} /\ lastOp'.arg # "register") =>
        /\ \E c \in Conns : conn[c].st = "awaiting" /\ conn'[c].st = "closed" /\ ~sockUp'[c]
        /\ neurons' = neurons /\ bus' = bus
        /\ outQ' = outQ /\ rxAlive' = rxAlive]_vars

\* a connection whose first frame was a Heartbeat has just been ended while
\* another worker is registered
C10_Witness ==
    /\ lastOp.result = "rejected" /\ lastOp.arg = "heartbeat"
    /\ Len(neurons) = 1
    /\ \E c \in Conns : conn[c].st = "closed"

(***************************************************************************)
(* Properties of the worker, checked under SpecWorker.                     *)
(***************************************************************************)
\* a step of the receive loop that applied a provisioning command
Applied(kind) == lastCmd'.cmd.kind = kind
AppliedAny == lastCmd'.cmd.kind # NONE
LastQueued == msgQ'[Len(msgQ')]
PidsOf(w, model) == {p \in DOMAIN w : w[p].model = model}

\* C2: when the session ends (close frame, read error, end of stream, or a
\* response that can no longer be queued) the supervising loop does not
\* stop: it goes to the backoff delay and from there to a new attempt.
C2_SupervisorReconnectsAfterSession ==
    [][sup = "active" /\ sup' # "active" => sup' = "backoff"]_vars

C6_LoadWithoutConfigIsError ==
    [][Applied("load") /\ lastCmd'.cmd.model_id \notin DOMAIN model_configs =>
        /\ lastCmd'.resp.status = "error"
        /\ lastCmd'.resp.model_id = lastCmd'.cmd.model_id
        /\ UNCHANGED <<workers, by_model, registry, next_backend_port, model_configs>>]_vars

\* LoadModel for an unconfigured model was refused while the other model is
\* running
C6_Witness ==
    /\ lastCmd.cmd.kind = "load"
    /\ lastCmd.cmd.model_id \notin DOMAIN model_configs
    /\ lastCmd.resp.status = "error"
    /\ workers # EmptyMap

\* C7: LoadModel(id) with a configuration stored and the spawn succeeding
\* answers Ok with an endpoint, and afterwards exactly one process is tracked
\* for id, also when id was already running.
C7_LoadTracksExactlyOneProcess ==
    [][Applied("load") /\ DOMAIN workers' # DOMAIN workers =>
        /\ lastCmd'.resp.status = "ok"
        /\ lastCmd'.resp.endpoint # NoUrl
        /\ tracked(by_model', lastCmd'.cmd.model_id) = 1
        /\ Cardinality(PidsOf(workers', lastCmd'.cmd.model_id)) = 1]_vars

\* C8: after UnloadModel(id) is answered, neither index of the process
\* manager holds a process for id and the runtime-handle registry has no
\* entry for id; the answer is Ok; when id had no process and no handle,
\* nothing changes.
C8_UnloadLeavesNothingTracked ==
    [][Applied("unload") =>
        LET id == lastCmd'.cmd.model_id
        IN /\ lastCmd'.resp.status = "ok" /\ lastCmd'.resp.model_id = id
           /\ tracked(by_model', id) = 0 /\ id \notin DOMAIN by_model'
           /\ PidsOf(workers', id) = {}
           /\ id \notin DOMAIN registry'
           /\ (tracked(by_model, id) = 0 /\ id \notin DOMAIN registry
                 => UNCHANGED <<workers, by_model, registry, model_configs, next_backend_port>>)]_vars

\* a model that had been loaded twice was unloaded
C8_Witness ==
    /\ lastCmd.cmd.kind = "unload" /\ lastCmd.had = 2
    /\ lastCmd.cmd.model_id \notin DOMAIN by_model

(***************************************************************************)
(* Properties of the monitoring connections, checked under SpecObserve.    *)
(***************************************************************************)
\* the events a monitoring connection has been sent, and how many events
\* published since its subscription it has consumed
EventsSent(o) == [i \in 1..(Len(obs[o].got) - 1) |-> obs[o].got[i + 1].event]
Consumed(o) == Len(obs[o].since) - obs[o].unread

C12_LagKeepsConnectionOpen ==
    [][\A o \in Observers :
          (obs[o].st = "streaming" /\ obs[o].up /\ recv_lagged(bus, obs[o].unread))
              => obs'[o].st = "streaming"]_vars

\* C20: the first message on a monitoring connection is its one Snapshot;
\* every later message is an Event, the i-th of them being the i-th event
\* published after the subscription, whether it was published before or
\* after the snapshot was assembled and sent.
C20_SnapshotFirstThenEvents ==
    \A o \in Observers :
        /\ obs[o].st \in {"subscribed", "snapshot"} => obs[o].got = <<>>
        /\ obs[o].st = "streaming" => obs[o].got # <<>>
        /\ obs[o].got # <<>> =>
              /\ obs[o].got[1] = ObserveMessage("snapshot", obs[o].snap, NoEvent)
              /\ \A i \in 2..Len(obs[o].got) :
                    /\ obs[o].got[i].kind = "event"
                    /\ obs[o].got[i].event = obs[o].since[i - 1]

\* an event published while the snapshot was being assembled has been sent
\* after the snapshot
C20_Witness ==
    \E o \in Observers :
        /\ obs[o].st = "streaming" /\ obs[o].early >= 1
        /\ Len(obs[o].got) >= 2 /\ obs[o].got[2].event = obs[o].since[1]

\* C18: once the control node has processed a ProvisioningResponse from a
\* worker, its provisioning store lists the reported model with the reported
\* status under that worker, which is what a snapshot assembled afterwards
\* shows.
C18_ResponseIsCached ==
    \A i \in 1..Len(bus) :
        bus[i].type = "provisioning_response" =>
            \E j \in 1..Len(list_for_neuron(model_store, bus[i].neuron_id)) :
                list_for_neuron(model_store, bus[i].neuron_id)[j] = ResponseStatus

\* C19: a prune step that removes a worker's record publishes a
\* NeuronRemoved event carrying that worker's id.
C19_PruneRemovalPublishesRemoved ==
    [][lastOp'.op = "prune" =>
        \A i \in 1..Len(neurons) :
            now - neurons[i].last_heartbeat > PruneTimeout =>
                /\ bus' # bus
                /\ \E j \in 1..Len(bus') :
                      /\ bus'[j].type = "neuron_removed"
                      /\ bus'[j].neuron_id = neurons[i].descriptor.node_id]_vars

\* C17: a send that fails (unknown worker, no channel, closed channel) leaves
\* every registry record as it was, and a worker's record leaves the registry
\* only in a step of the prune loop, when its heartbeat has timed out.
C17_OnlyPruneRemovesRecords ==
    [][/\ (lastOp'.op \in {"send", "send_provisioning"} /\ lastOp'.result # "ok")
            => neurons' = neurons
       /\ (\E i \in 1..Len(neurons) :
              \A j \in 1..Len(neurons') :
                  neurons'[j].descriptor.node_id # neurons[i].descriptor.node_id)
            => /\ lastOp'.op = "prune"
               /\ \E i \in 1..Len(neurons) : now - neurons[i].last_heartbeat > PruneTimeout]_vars

\* a send has failed on a closed channel and the worker's record is still
\* there, with its sender
C17_Witness ==
    /\ lastOp.op = "send" /\ lastOp.result = "closed"
    /\ FindSome(neurons, lastOp.id) # 0
    /\ neurons[FindSome(neurons, lastOp.id)].outbound_tx # 0

\* C16: the record of a worker that registered without a stable id is never
\* among the descriptors written to the cache, and no id passed to
\* send_to_neuron has that worker's connection as its target.
C16_AnonymousWorkerNotAddressable ==
    /\ \A i \in 1..Len(save_cortex_state_to_cache(neurons, now)) :
          save_cortex_state_to_cache(neurons, now)[i].node_id # NONE
    /\ \A c \in Conns :
          (conn[c].st \in {"registering", "active"} /\ conn[c].node_id = NONE)
              => \A id \in SendIds : send_target(neurons, id) # c

(***************************************************************************)
(* Properties of the supervising loop and of message order.                *)
(***************************************************************************)
Min(a, b) == IF a < b THEN a ELSE b

\* C13: the delay after the k-th failed connection attempt is
\* min(d * 2^(k-1), max) for the initial delay d; it is never above max,
\* never below d, and never smaller than the delay before it.
C13_DelayDoublesUpToMax ==
    [][failures' = failures + 1 =>
        /\ delay' = Min(BackoffInitial * 2^(failures' - 1), BackoffMax)
        /\ delay' <= BackoffMax
        /\ delay' >= BackoffInitial
        /\ failures >= 1 => delay' >= delay]_vars

\* the loop sleeps for the maximum after the last of MaxFailures failures,
\* one more than the first failure whose doubled delay is capped
C13_Witness ==
    /\ sup = "backoff" /\ failures = MaxFailures
    /\ delay = BackoffMax /\ current = BackoffMax
    /\ BackoffInitial * 2^(failures - 2) > BackoffMax

\* a queue changes only by losing its head to the writer or gaining one item
\* at its tail
Fifo(q, r) ==
    \/ r = q
    \/ q # <<>> /\ r = Tail(q)
    \/ Len(r) = Len(q) + 1 /\ SubSeq(r, 1, Len(q)) = q

C15_IndicesAgreeInEveryState ==
    \A pid \in Pids : pid \in DOMAIN workers <=> InIndex(by_model, pid)

(***************************************************************************)
(* Properties of frames received on an Active connection.                  *)
(***************************************************************************)
RecordsOf(ns, nid) == {i \in 1..Len(ns) : ns[i].descriptor.node_id = nid}

C23_UnparseableFrameEndsConnection ==
    [][lastOp'.result = "parse_error" =>
        /\ \E c \in Conns :
              /\ conn[c].st = "active" /\ conn[c].id = lastOp'.id
              /\ conn'[c] = Closed
              /\ \A b \in Conns \ {c} : conn'[b] = conn[b]
        /\ neurons' = neurons]_vars

\* C24: the termination signal queues one Shutdown notice behind what the
\* worker's outbound queue holds, and the control node takes a Shutdown
\* frame as a message of the worker.
C24_ShutdownNoticeQueuedAndAccepted ==
    [][/\ (sigTask /\ ~sigTask' /\ msgRx) =>
             msgQ' = Append(msgQ, NeuronToCortex("shutdown", NoResponse))
       /\ (lastOp'.op = "message" /\ lastOp'.arg = "shutdown") =>
             lastOp'.result # "parse_error"]_vars

(***************************************************************************)
(* Properties of the provisioning handlers.                                *)
(***************************************************************************)
\* C22: UpsertModelConfig writes the configuration map to the cache file, and
\* a configuration the worker has accepted is still in its map after a step
\* that is not a command, a restart with its hydration included.
C22_UpsertIsPersisted ==
    [][/\ Applied("upsert") => load_or_default(model_config_store') = model_configs'
       /\ ~AppliedAny =>
             \A id \in DOMAIN model_configs :
                 id \in DOMAIN model_configs' /\ model_configs'[id] = model_configs[id]]_vars

\* C25: UnloadModel leaves the configuration map as it is, so a LoadModel
\* that follows the unload of a running model, with no UpsertModelConfig in
\* between, finds the configuration.
C25_UnloadKeepsConfiguration ==
    [][/\ Applied("unload") => model_configs' = model_configs
       /\ (/\ Applied("load") /\ lastCmd.cmd.kind = "unload" /\ lastCmd.had >= 1
           /\ lastCmd'.cmd.model_id = lastCmd.cmd.model_id) =>
             /\ lastCmd'.cmd.model_id \in DOMAIN model_configs
             /\ lastCmd'.resp.error # "no configuration found"]_vars

\* a running model has just been unloaded: no process, no runtime handle, and
\* its configuration still stored
C25_Witness ==
    /\ lastCmd.cmd.kind = "unload" /\ lastCmd.had >= 1
    /\ lastCmd.cmd.model_id \in DOMAIN model_configs
    /\ tracked(by_model, lastCmd.cmd.model_id) = 0
    /\ lastCmd.cmd.model_id \notin DOMAIN registry

\* C26: when the spawn fails during LoadModel(id) the answer is Error for id
\* and neither the stored configurations, the process indices nor the
\* runtime handles change: a model that was Configured has no process and no
\* handle afterwards.
C26_SpawnFailureLeavesConfigured ==
    [][(Applied("load") /\ lastCmd'.resp.error = "failed to spawn backend process") =>
        /\ lastCmd'.resp.status = "error"
        /\ lastCmd'.resp.model_id = lastCmd'.cmd.model_id
        /\ model_configs' = model_configs
        /\ workers' = workers /\ by_model' = by_model
        /\ registry' = registry
        /\ (lastCmd'.had = 0 /\ lastCmd'.cmd.model_id \notin DOMAIN registry) =>
              /\ PidsOf(workers', lastCmd'.cmd.model_id) = {}
              /\ tracked(by_model', lastCmd'.cmd.model_id) = 0
              /\ lastCmd'.cmd.model_id \notin DOMAIN registry']_vars

\* the spawn for a Configured model has just failed, after a port was taken
\* for its endpoint
C26_Witness ==
    /\ lastCmd.cmd.kind = "load"
    /\ lastCmd.resp.error = "failed to spawn backend process"
    /\ lastCmd.had = 0
    /\ lastCmd.cmd.model_id \in DOMAIN model_configs
    /\ lastCmd.cmd.model_id \notin DOMAIN registry
    /\ workers = EmptyMap
    /\ next_backend_port > StartingPort

\* C28: LoadModel for a configuration whose backend kind is neither vllm nor
\* llama_cpp answers Error, spawns no process and takes no port, with or
\* without an explicit listen endpoint in the configuration.
C28_UnsupportedBackendIsError ==
    [][(/\ Applied("load")
        /\ lastCmd'.cmd.model_id \in DOMAIN model_configs
        /\ model_configs[lastCmd'.cmd.model_id].backend_kind \notin {"vllm", "llama_cpp"}) =>
        /\ lastCmd'.resp.status = "error"
        /\ workers' = workers /\ by_model' = by_model
        /\ next_backend_port' = next_backend_port]_vars

\* C29: LoadModel for a configuration with an explicit listen endpoint leaves
\* the port counter as it is and, when it answers Ok, quotes that endpoint;
\* the counter moves only in a LoadModel for a configuration without one.
C29_ExplicitEndpointTakesNoPort ==
    [][/\ (Applied("load") /\ lastCmd'.cmd.model_id \in DOMAIN model_configs) =>
             LET cfg == model_configs[lastCmd'.cmd.model_id]
             IN /\ cfg.listen_endpoint # NoUrl =>
                      /\ next_backend_port' = next_backend_port
                      /\ lastCmd'.resp.status = "ok" => lastCmd'.resp.endpoint = cfg.listen_endpoint
                /\ next_backend_port' # next_backend_port => cfg.listen_endpoint = NoUrl
       /\ (AppliedAny /\ ~Applied("load")) => next_backend_port' = next_backend_port]_vars

\* a load answered Ok with the explicit endpoint, after an earlier load had
\* taken a port
C29_Witness ==
    /\ lastCmd.cmd.kind = "load" /\ lastCmd.resp.status = "ok"
    /\ lastCmd.resp.endpoint = ExplicitEndpoint
    /\ model_configs[lastCmd.cmd.model_id].listen_endpoint = ExplicitEndpoint
    /\ next_backend_port = StartingPort + 1

\* C27: a LoadModel that hands out a port-derived endpoint hands out the
\* value of the 16-bit port counter and leaves the counter larger than it
\* was, so no two such endpoints of one worker process have the same port.
C27_PortsStrictlyIncrease ==
    [][(/\ Applied("load") /\ lastCmd'.resp.status = "ok"
        /\ lastCmd'.resp.endpoint.host = "127.0.0.1") =>
        /\ lastCmd'.resp.endpoint.port = next_backend_port
        /\ next_backend_port' > next_backend_port
        /\ next_backend_port' <= U16Max]_vars

\* C30: a terminate call takes the pid out of the by-pid index in its first
\* half, whether or not the kill succeeded, and when it returns the pid is in
\* neither index and no model of the by-model index has an empty pid list;
\* the call has no result that could carry the kill's failure.
C30_TerminateUntracksDespiteKillFailure ==
    [][\A t \in Threads :
          /\ (inflight[t] = Idle /\ inflight'[t].op \in Terminating) =>
                inflight'[t].pid \notin DOMAIN workers'
          /\ (inflight[t].op \in Terminating /\ inflight'[t] = Idle) =>
                /\ inflight[t].pid \notin DOMAIN workers'
                /\ ~InIndex(by_model', inflight[t].pid)
                /\ \A m \in DOMAIN by_model' : by_model'[m] # <<>>]_vars

\* the kill of a tracked process failed: the pid is gone from the by-pid
\* index, and the by-model index still lists it as its model's only process
C30_Witness ==
    \E t \in Threads :
        /\ inflight[t].op = "terminate_kill_failed"
        /\ inflight[t].pid \notin DOMAIN workers
        /\ \E m \in DOMAIN by_model : by_model[m] = <<inflight[t].pid>>

\* C31: the state written to the cache file lists exactly the descriptors
\* of the records that carry a stable id and whose last heartbeat is at
\* most the persist threshold (5 minutes) old, once each, and holds model
\* statuses only under ids of that list.
SavedIds == {cortex_state_file[1].neurons[i].node_id : i \in 1..Len(cortex_state_file[1].neurons)}

OnlineRecords == {i \in 1..Len(neurons) : /\ neurons[i].descriptor.node_id # NONE
                                          /\ now - neurons[i].last_heartbeat <= PersistThreshold}

C31_CacheHoldsOnlineWorkers ==
    cortex_state_file # <<>> =>
        /\ Len(cortex_state_file[1].neurons) = Cardinality(OnlineRecords)
        /\ \A i \in OnlineRecords :
              \E j \in 1..Len(cortex_state_file[1].neurons) :
                  cortex_state_file[1].neurons[j] = neurons[i].descriptor
        /\ DOMAIN cortex_state_file[1].models_by_neuron \subseteq SavedIds

\* a save that skipped a stale record and an anonymous one, and wrote
\* statuses for a worker it kept
C31_Witness ==
    /\ cortex_state_file # <<>>
    /\ Len(neurons) = 2
    /\ \E i \in 1..2 : now - neurons[i].last_heartbeat > PersistThreshold
    /\ \E i \in 1..2 : /\ now - neurons[i].last_heartbeat = PersistThreshold
                        /\ neurons[i].descriptor.node_id \in DOMAIN cortex_state_file[1].models_by_neuron
    /\ DOMAIN model_store # DOMAIN cortex_state_file[1].models_by_neuron

\* C32: load_or_default after save(v) returns v, the value of the latest
\* save; load_or_default of a store whose file is missing or holds nothing
\* but white space returns the default; and a load leaves the file as it
\* was, so it never creates it.
C32_SaveLoadRoundTrip ==
    [][(json_loaded = <<>> /\ json_loaded' # <<>>) =>
          /\ json_file' = json_file
          /\ json_saved # <<>> => json_loaded' = <<Parsed(TRUE, json_saved[Len(json_saved)])>>
          /\ (~json_file.exists \/ trim(json_file.text) = <<>>) =>
                json_loaded' = <<Parsed(TRUE, EmptyMap)>>]_vars

\* a two-member value loaded back after it replaced an earlier save
C32_Witness ==
    /\ json_loaded # <<>>
    /\ Len(json_saved) = 2
    /\ json_saved[1] # json_saved[2]
    /\ DOMAIN json_saved[2] = JsonKeys
    /\ json_saved[2]["foo"] # json_saved[2]["baz"]
    /\ json_loaded[1].value = json_saved[2]

\* C33: a Heartbeat handled on a worker's session refreshes that worker's
\* record only: every record of another worker is left as it was, whatever
\* neuron_id the message carries.
C33_HeartbeatRefreshesOwnRecordOnly ==
    [][lastOp'.op = "heartbeat" =>
          \A i \in 1..Len(neurons) :
              neurons[i].descriptor.node_id # lastOp'.id => neurons'[i] = neurons[i]]_vars

\* C34: handling a Heartbeat never creates a record: the registry holds
\* the same workers after it as before, so a worker pruned while its
\* connection is open is absent after each of its heartbeats.
C34_HeartbeatNeverCreatesRecord ==
    [][lastOp'.op = "heartbeat" =>
          /\ Len(neurons') = Len(neurons)
          /\ \A id \in NodeIds : FindSome(neurons, id) = 0 => FindSome(neurons', id) = 0]_vars

\* a pruned worker with its connection open has sent a heartbeat under its
\* own id and has no record
C34_Witness ==
    /\ lastOp.op = "heartbeat" /\ lastOp.result = "absent" /\ lastOp.arg = lastOp.id
    /\ \E c \in Conns : conn[c].st = "active" /\ sockUp[c] /\ conn[c].id = lastOp.id
    /\ FindSome(neurons, lastOp.id) = 0
    /\ lastUpsert[lastOp.id] # NONE

\* C35: a send that reports success was made to a worker whose connection
\* is open: once the reader task of the record's connection has seen the
\* close or error and ended, no send to the worker reports success.
C35_NoSuccessAfterClose ==
    (lastOp.op \in {"send", "send_provisioning"} /\ lastOp.result = "ok")
        => conn[send_target(neurons, lastOp.id)].st # "closed"

C37_NewestConnectionGetsSends ==
    [][/\ \A c \in Conns :
             (conn[c].st = "registering" /\ conn'[c].st = "active")
                 => send_target(neurons', conn[c].id) = c
       /\ \A i \in 1..Len(neurons) :
             neurons'[i].outbound_tx # neurons[i].outbound_tx
                 => \E c \in Conns : /\ conn[c].st = "registering" /\ conn'[c].st = "active"
                                     /\ conn[c].id = neurons[i].descriptor.node_id
                                     /\ neurons'[i].outbound_tx = c
       /\ lastOp'.op = "upsert" =>
             \A i \in 1..Len(neurons) : neurons'[i].outbound_tx = neurons[i].outbound_tx]_vars

\* a worker registered on connection 1 has registered again on connection
\* 2, and a send to it has been queued on connection 2
C37_Witness ==
    /\ conn[2].st = "active" /\ conn[2].id = "w1"
    /\ lastUpsert["w2"] = NONE
    /\ conn[1].st \in {"active", "closed"}
    /\ send_target(neurons, "w1") = 2
    /\ lastOp.op = "send" /\ lastOp.id = "w1" /\ lastOp.result = "ok"
    /\ outQ[2] # <<>> /\ outQ[2][Len(outQ[2])] = RequestCapabilities

\* C38: a step that publishes ProvisioningSent for a worker has placed the
\* command on that worker's queue; no event is published when the send
\* fails.
C38_SentEventImpliesQueued ==
    [][(/\ lastOp'.op = "send_provisioning"
        /\ bus' # <<>>
        /\ bus'[Len(bus')] = ObserveEvent("provisioning_sent", lastOp'.id, NONE))
          => (lastOp'.result = "ok" /\ outQ' # outQ)]_vars

\* C39: whenever no process-manager call is under way, every pid of the
\* by-pid index appears exactly once in the by-model index, under one
\* model, also after a backend exited on its own and its pid was given to
\* a later spawn.
Occurrences(b, pid) ==
    UNION {{<<m, i>> : i \in {k \in 1..Len(b[m]) : b[m][k] = pid}} : m \in DOMAIN b}

C39_TrackedPidIndexedOnce ==
    (\A t \in Threads : inflight[t] = Idle)
        => \A pid \in DOMAIN workers : Cardinality(Occurrences(by_model, pid)) = 1

\* C40: an UnloadModel command that arrives while chat requests hold the
\* registry's read guard is answered: the handler's wait for the write
\* guard ends, the model is unregistered and the handler returns.
C40_UnloadCompletesDuringChat ==
    \A m \in Models : (unload = Unload("blocked", m)) ~> (unload = NotUnloading /\ m \notin DOMAIN registry)

\* the same on hosts with at least two cores
C40_UnloadCompletesWithSpareThread ==
    \A m \in Models :
        (unload = Unload("blocked", m) /\ worker_threads >= 2)
            ~> (unload = NotUnloading /\ m \notin DOMAIN registry)

====
